---- MODULE Spec2Model ----
(***************************************************************************)
(* A model of visualgl's camera subsystem: Projection (orthographic and    *)
(* perspective), Camera (pose and pose primitives) and CameraController    *)
(* (the command layer).                                                    *)
(*                                                                         *)
(* Numbers.  The program computes in floating point.  The model computes   *)
(* exactly: a scalar is a rational <<n, d>> in lowest terms with d > 0.    *)
(* An angle is a whole number of quarter turns, so that every rotation the *)
(* model performs is an exact integer matrix; the camera orientation is    *)
(* the rotation matrix of the pose's unit quaternion.  A field of view is  *)
(* held as the tangent of its half angle (the only way the code uses it).  *)
(***************************************************************************)
EXTENDS Integers, Sequences, FiniteSets, TLC

VARIABLES
    camera_to_world,  \* Camera.camera_to_world: [rot: 3x3 integer matrix, trans: 3 rationals]
    projection,       \* Camera.projection: [kind, aspect, near_clip, far_clip, width, vertical_fov]
    target,           \* CameraController.target (3 rationals)
    orbit_type,       \* CameraController.orbit_type: "FREE" or "CONSTRAINED"
    is_locked,        \* CameraController.is_locked
    call,             \* the last operation invoked and its arguments
    ret,              \* what the last operation returned: "None", "True", "False" or "raise"
    pre,              \* the controller state (and call) just before the last operation
    nops,             \* number of operations invoked so far
    obj,              \* the object the last call constructed or unpacked (NoObject if none)
    handler,          \* InputHandler: current_button_down, current_key_modifiers,
                      \* last_cursor_position
    window            \* the GLFW window: the mouse buttons held down, the cursor position
                      \* and the events its event callback received in the last callback

vars == <<camera_to_world, projection, target, orbit_type, is_locked, call, ret, pre, nops,
          obj, handler, window>>

-----------------------------------------------------------------------------
(* Bounds of the exploration. *)

\* Number of controller operations in one run.
MaxOps == 2

-----------------------------------------------------------------------------
(* Exact rational arithmetic (stands for Python float arithmetic). *)

Abs(i) == IF i < 0 THEN -i ELSE i

RECURSIVE Gcd(_, _)
Gcd(a, b) == IF b = 0 THEN a ELSE Gcd(b, a % b)

\* The rational n/d in lowest terms with a positive denominator (d # 0).
Q(n, d) ==
    LET g == Gcd(Abs(n), Abs(d))
        s == IF d < 0 THEN -1 ELSE 1
    IN  <<(s * n) \div g, (s * d) \div g>>

I(i) == <<i, 1>>

Zero == I(0)
One == I(1)

\* The operations cancel common factors before they multiply, which keeps the
\* intermediate integers small; whole numbers are handled without a gcd.
RAdd(a, b) ==
    IF a[2] = b[2] THEN Q(a[1] + b[1], a[2])
    ELSE LET g == Gcd(a[2], b[2])
         IN  Q(a[1] * (b[2] \div g) + b[1] * (a[2] \div g), (a[2] \div g) * b[2])
RNeg(a) == <<-a[1], a[2]>>
RSub(a, b) == RAdd(a, RNeg(b))
RMul(a, b) ==
    IF a[2] = 1 /\ b[2] = 1 THEN <<a[1] * b[1], 1>>
    ELSE IF a[1] = 0 \/ b[1] = 0 THEN <<0, 1>>
    ELSE LET g1 == Gcd(Abs(a[1]), b[2])
             g2 == Gcd(Abs(b[1]), a[2])
         IN  <<(a[1] \div g1) * (b[1] \div g2), (a[2] \div g2) * (b[2] \div g1)>>
\* a / b for b # 0 (Python raises ZeroDivisionError for b = 0).
RDiv(a, b) == RMul(a, IF b[1] < 0 THEN <<-b[2], -b[1]>> ELSE <<b[2], b[1]>>)
RLt(a, b) ==
    IF a[2] = b[2] THEN a[1] < b[1]
    ELSE LET g == Gcd(a[2], b[2]) IN a[1] * (b[2] \div g) < b[1] * (a[2] \div g)
RLe(a, b) == ~RLt(b, a)
RMax(a, b) == IF RLt(a, b) THEN b ELSE a
RIsZero(a) == a[1] = 0

-----------------------------------------------------------------------------
(* spatial3d.Vector3 with rational components. *)

V3(x, y, z) == <<x, y, z>>
VI(x, y, z) == <<I(x), I(y), I(z)>>
VZero == VI(0, 0, 0)

VAdd(u, v) == <<RAdd(u[1], v[1]), RAdd(u[2], v[2]), RAdd(u[3], v[3])>>
VSub(u, v) == <<RSub(u[1], v[1]), RSub(u[2], v[2]), RSub(u[3], v[3])>>
VNeg(u) == <<RNeg(u[1]), RNeg(u[2]), RNeg(u[3])>>
VScale(k, u) == <<RMul(k, u[1]), RMul(k, u[2]), RMul(k, u[3])>>
VDot(u, v) == RAdd(RAdd(RMul(u[1], v[1]), RMul(u[2], v[2])), RMul(u[3], v[3]))
\* Squared length; a distance is compared through its square.
VLenSq(u) == VDot(u, u)

-----------------------------------------------------------------------------
(* Rotations: 3x3 integer matrices, as a tuple of rows. *)

IdentityRot == <<<<1, 0, 0>>, <<0, 1, 0>>, <<0, 0, 1>>>>

\* (Tuples are written out in full: they are values, computed once.)
RotEntry(A, B, i, j) == A[i][1] * B[1][j] + A[i][2] * B[2][j] + A[i][3] * B[3][j]

RotMul(A, B) ==
    <<<<RotEntry(A, B, 1, 1), RotEntry(A, B, 1, 2), RotEntry(A, B, 1, 3)>>,
      <<RotEntry(A, B, 2, 1), RotEntry(A, B, 2, 2), RotEntry(A, B, 2, 3)>>,
      <<RotEntry(A, B, 3, 1), RotEntry(A, B, 3, 2), RotEntry(A, B, 3, 3)>>>>

RotTranspose(A) ==
    <<<<A[1][1], A[2][1], A[3][1]>>,
      <<A[1][2], A[2][2], A[3][2]>>,
      <<A[1][3], A[2][3], A[3][3]>>>>

\* A rotation applied to a rational vector.
RotRow(r, v) == RAdd(RAdd(RMul(I(r[1]), v[1]), RMul(I(r[2]), v[2])), RMul(I(r[3]), v[3]))

RotApply(A, v) == <<RotRow(A[1], v), RotRow(A[2], v), RotRow(A[3], v)>>

\* Column j of a rotation: the image of the j-th basis vector, as integers.
RotColumn(A, j) == <<A[1][j], A[2][j], A[3][j]>>

\* cos and sin of k quarter turns.
CosQ(k) == CASE k % 4 = 0 -> 1 [] k % 4 = 1 -> 0 [] k % 4 = 2 -> -1 [] OTHER -> 0
SinQ(k) == CASE k % 4 = 0 -> 0 [] k % 4 = 1 -> 1 [] k % 4 = 2 -> 0 [] OTHER -> -1

\* Rotation by k quarter turns about the integer unit axis a (Rodrigues' formula:
\* R = cos I + sin [a]x + (1 - cos) a a^T).
AxisAngleRot(a, k) ==
    LET c == CosQ(k)
        s == SinQ(k)
        K == <<<<0, -a[3], a[2]>>, <<a[3], 0, -a[1]>>, <<-a[2], a[1], 0>>>>
        e(i, j) == (IF i = j THEN c ELSE 0) + s * K[i][j] + (1 - c) * a[i] * a[j]
    IN  <<<<e(1, 1), e(1, 2), e(1, 3)>>,
          <<e(2, 1), e(2, 2), e(2, 3)>>,
          <<e(3, 1), e(3, 2), e(3, 3)>>>>

-----------------------------------------------------------------------------
(* spatial3d.Transform: a rigid transform [rot, trans]. *)

Transform(rot, trans) == [rot |-> rot, trans |-> trans]

IdentityTransform == Transform(IdentityRot, VZero)

\* Transform.from_axis_angle_translation(axis, angle, translation), the defaults being
\* no rotation and no translation.
FromAxisAngle(axis, angle) == Transform(AxisAngleRot(axis, angle), VZero)
FromTranslation(translation) == Transform(IdentityRot, translation)

\* A * B: apply B, then A.
Compose(A, B) == Transform(RotMul(A.rot, B.rot), VAdd(RotApply(A.rot, B.trans), A.trans))

\* Transform.inverse()
Inverse(A) ==
    LET rt == RotTranspose(A.rot)
    IN  Transform(rt, VNeg(RotApply(rt, A.trans)))

\* transform(v, as_type="point") and transform(v, as_type="vector")
ApplyPoint(A, p) == VAdd(RotApply(A.rot, p), A.trans)
ApplyVector(A, v) == RotApply(A.rot, v)

-----------------------------------------------------------------------------
(* spatial3d.Matrix4: 16 rationals; element (row r, column c), both from 0, is   *)
(* elements[4 * c + r] (the names m34, m43 of projection.py follow this layout). *)

Mat4At(M, r, c) == M[4 * c + r + 1]

Mat4Entry(A, B, r, c) ==
    RAdd(RAdd(RMul(Mat4At(A, r, 0), Mat4At(B, 0, c)), RMul(Mat4At(A, r, 1), Mat4At(B, 1, c))),
         RAdd(RMul(Mat4At(A, r, 2), Mat4At(B, 2, c)), RMul(Mat4At(A, r, 3), Mat4At(B, 3, c))))

Mat4Mul(A, B) ==
    <<Mat4Entry(A, B, 0, 0), Mat4Entry(A, B, 1, 0), Mat4Entry(A, B, 2, 0), Mat4Entry(A, B, 3, 0),
      Mat4Entry(A, B, 0, 1), Mat4Entry(A, B, 1, 1), Mat4Entry(A, B, 2, 1), Mat4Entry(A, B, 3, 1),
      Mat4Entry(A, B, 0, 2), Mat4Entry(A, B, 1, 2), Mat4Entry(A, B, 2, 2), Mat4Entry(A, B, 3, 2),
      Mat4Entry(A, B, 0, 3), Mat4Entry(A, B, 1, 3), Mat4Entry(A, B, 2, 3), Mat4Entry(A, B, 3, 3)>>

Mat4Identity ==
    <<One, Zero, Zero, Zero, Zero, One, Zero, Zero, Zero, Zero, One, Zero, Zero, Zero, Zero, One>>

-----------------------------------------------------------------------------
(* Settings (visualgl.settings, namespace "camera"). *)

\* Angle per unit of cursor movement while orbiting.
OrbitSpeed == 2
\* Angle of one orbit step.  The program's step is 5 degrees; the model's angles
\* are whole quarter turns, so one step is one quarter turn.
OrbitStep == 1
RollSpeed == 2
\* Angle of one roll step (one quarter turn, as for OrbitStep).
RollStep == 1
ScaleIn == 1
ScaleSpeed == 75
ScaleStep == 15
TrackStep == 20
\* tan(vertical_fov / 2) for the default vertical field of view of 60 degrees
\* (0.5774), as the rational 4/7.
VerticalFov == <<4, 7>>

-----------------------------------------------------------------------------
(* projection.py *)

\* OrthoProjection.WIDTH_MIN = 0.01
WIDTH_MIN == <<1, 100>>

\* Projection.__init__ defaults.
DefaultAspect == One
DefaultNearClip == <<1, 10>>

\* The far clipping distance the camera's projection is constructed with.
FarClip == 100

OrthoProjection(aspect, near_clip, far_clip, width) ==
    [kind |-> "ortho", aspect |-> aspect, near_clip |-> near_clip, far_clip |-> far_clip,
     width |-> width, vertical_fov |-> Zero]

PerspectiveProjection(aspect, near_clip, far_clip, vertical_fov) ==
    [kind |-> "persp", aspect |-> aspect, near_clip |-> near_clip, far_clip |-> far_clip,
     width |-> Zero, vertical_fov |-> vertical_fov]

\* Projection.depth
Depth(p) == RSub(p.far_clip, p.near_clip)

\* OrthoProjection.height (getter)
Height(p) == RDiv(p.width, p.aspect)

\* OrthoProjection.height (setter)
SetHeight(p, height) == [p EXCEPT !.width = RMul(height, p.aspect)]

\* PerspectiveProjection._scale = 1 / tan(vertical_fov / 2)
PerspScale(p) == RDiv(One, p.vertical_fov)

OrthoInverse(p) ==
    LET m11 == RDiv(p.width, I(2))
        m22 == RDiv(Height(p), I(2))
        m33 == RDiv(RNeg(Depth(p)), I(2))
        m43 == RDiv(RNeg(RAdd(p.far_clip, p.near_clip)), I(2))
    IN  <<m11, Zero, Zero, Zero, Zero, m22, Zero, Zero,
          Zero, Zero, m33, m43, Zero, Zero, Zero, One>>

OrthoMatrix(p) ==
    LET m11 == RDiv(I(2), p.width)
        m22 == RDiv(I(2), Height(p))
        m33 == RDiv(I(-2), Depth(p))
        m34 == RDiv(RNeg(RAdd(p.far_clip, p.near_clip)), Depth(p))
    IN  <<m11, Zero, Zero, Zero, Zero, m22, Zero, Zero,
          Zero, Zero, m33, Zero, Zero, Zero, m34, One>>

PerspInverse(p) ==
    LET m11 == RDiv(p.aspect, PerspScale(p))
        m22 == RDiv(One, PerspScale(p))
        m43 == RDiv(RNeg(Depth(p)), RNeg(RAdd(p.far_clip, p.near_clip)))
        m44 == RDiv(RAdd(p.far_clip, p.near_clip),
                    RAdd(RMul(I(2), p.far_clip), p.near_clip))
    IN  <<m11, Zero, Zero, Zero, Zero, m22, Zero, Zero,
          Zero, Zero, Zero, m43, Zero, Zero, I(-1), m44>>

PerspMatrix(p) ==
    LET m11 == RDiv(PerspScale(p), p.aspect)
        m22 == PerspScale(p)
        m33 == RDiv(RNeg(RAdd(p.far_clip, p.near_clip)), Depth(p))
        m34 == RDiv(RMul(RMul(I(-2), p.far_clip), p.near_clip), Depth(p))
    IN  <<m11, Zero, Zero, Zero, Zero, m22, Zero, Zero,
          Zero, Zero, m33, I(-1), Zero, Zero, m34, Zero>>

\* projection.matrix and projection.inverse, dispatched on the variant.
ProjMatrix(p) == IF p.kind = "ortho" THEN OrthoMatrix(p) ELSE PerspMatrix(p)
ProjInverse(p) == IF p.kind = "ortho" THEN OrthoInverse(p) ELSE PerspInverse(p)

\* OrthoProjection.resize that rescales the width and forgets the new aspect.
OrthoResizeKeepsAspect(p, width, height) ==
    [p EXCEPT !.width = RMul(p.width, RDiv(RDiv(width, height), p.aspect))]

\* OrthoProjection.resize(width, height)
OrthoResize(p, width, height) ==
    LET new_aspect == RDiv(width, height)
    IN  [p EXCEPT !.width = RMul(p.width, RDiv(new_aspect, p.aspect)),
                  !.aspect = new_aspect]

\* PerspectiveProjection.resize(width, height)
PerspResize(p, width, height) == [p EXCEPT !.aspect = RDiv(width, height)]

ProjResize(p, width, height) ==
    IF p.kind = "ortho" THEN OrthoResize(p, width, height) ELSE PerspResize(p, width, height)

\* OrthoProjection.zoom without the lower limit.
OrthoZoomUnclamped(p, amount) == [p EXCEPT !.width = RAdd(p.width, amount)]

\* OrthoProjection.zoom(amount)
OrthoZoom(p, amount) == [p EXCEPT !.width = RMax(RAdd(p.width, amount), WIDTH_MIN)]

-----------------------------------------------------------------------------
(* camera.py: the pose primitives.  A pose is a Transform (camera to world). *)

AxisX == <<1, 0, 0>>
AxisY == <<0, 1, 0>>
AxisZ == <<0, 0, 1>>

\* Camera.position
Position(c2w) == c2w.trans

\* Camera.world_to_camera
WorldToCamera(c2w) == Inverse(c2w)

\* The pitch step of Camera.orbit: a rotation about the camera's x axis, in world space.
OrbitPitch(c2w, pitch) ==
    IF pitch # 0
    THEN Compose(FromAxisAngle(RotColumn(c2w.rot, 1), pitch), c2w)
    ELSE c2w

\* The yaw step of Camera.orbit: a rotation about the camera's y axis (FREE) or the
\* world's z axis (CONSTRAINED).
OrbitYaw(c2w, yaw, orbitType) ==
    IF yaw # 0
    THEN Compose(FromAxisAngle(IF orbitType = "FREE" THEN RotColumn(c2w.rot, 2) ELSE AxisZ,
                               yaw), c2w)
    ELSE c2w

\* Camera.orbit with the yaw step before the pitch step.
CameraOrbitYawFirst(c2w, tgt, pitch, yaw, orbitType) ==
    Compose(FromTranslation(tgt),
            OrbitPitch(OrbitYaw(Compose(FromTranslation(VNeg(tgt)), c2w), yaw, orbitType),
                       pitch))

\* Camera.orbit that does not move the target back from the origin.
CameraOrbitNoReturn(c2w, tgt, pitch, yaw, orbitType) ==
    OrbitYaw(OrbitPitch(Compose(FromTranslation(VNeg(tgt)), c2w), pitch), yaw, orbitType)

\* Camera.orbit(target, pitch, yaw, orbit_type)
CameraOrbit(c2w, tgt, pitch, yaw, orbitType) ==
    LET atOrigin == Compose(FromTranslation(VNeg(tgt)), c2w)
        pitched == OrbitPitch(atOrigin, pitch)
        yawed == OrbitYaw(pitched, yaw, orbitType)
    IN  Compose(FromTranslation(tgt), yawed)

\* Camera.dolly(z)
CameraDolly(c2w, z) == Compose(c2w, FromTranslation(V3(Zero, Zero, z)))

\* Camera.track that translates in world space (the translation on the left).
CameraTrackWorld(c2w, x, y) == Compose(FromTranslation(V3(x, y, Zero)), c2w)

\* Camera.track(x, y) and Camera.track(vector=v): only v.x and v.y are used.
CameraTrack(c2w, x, y) == Compose(c2w, FromTranslation(V3(x, y, Zero)))

\* Camera.roll that rotates about the world's z axis (the rotation on the left).
CameraRollWorld(c2w, angle) == Compose(FromAxisAngle(AxisZ, angle), c2w)

\* Camera.roll(angle)
CameraRoll(c2w, angle) == Compose(c2w, FromAxisAngle(AxisZ, angle))

\* Camera.camera_space(ndc): the point of the near clipping plane under ndc.
CameraSpace(p, ndc) ==
    V3(RMul(ProjInverse(p)[1], ndc[1]), RMul(ProjInverse(p)[6], ndc[2]), RNeg(p.near_clip))

-----------------------------------------------------------------------------
(* The scene: Scene.aabb of a scene with entities, as spatial3d.AABB computes it. *)

AabbMin == VI(-10, -20, -50)
AabbMax == VI(10, 20, -10)

\* AABB.center
AabbCenter == VScale(<<1, 2>>, VAdd(AabbMin, AabbMax))

\* AABB.corners
AabbCorners ==
    <<V3(AabbMin[1], AabbMin[2], AabbMin[3]), V3(AabbMax[1], AabbMin[2], AabbMin[3]),
      V3(AabbMin[1], AabbMax[2], AabbMin[3]), V3(AabbMax[1], AabbMax[2], AabbMin[3]),
      V3(AabbMin[1], AabbMin[2], AabbMax[3]), V3(AabbMax[1], AabbMin[2], AabbMax[3]),
      V3(AabbMin[1], AabbMax[2], AabbMax[3]), V3(AabbMax[1], AabbMax[2], AabbMax[3])>>

\* The corners in the space of a transform (transform(corners)).
ApplyCorners(A) ==
    <<ApplyPoint(A, AabbCorners[1]), ApplyPoint(A, AabbCorners[2]),
      ApplyPoint(A, AabbCorners[3]), ApplyPoint(A, AabbCorners[4]),
      ApplyPoint(A, AabbCorners[5]), ApplyPoint(A, AabbCorners[6]),
      ApplyPoint(A, AabbCorners[7]), ApplyPoint(A, AabbCorners[8])>>

\* AABB.contains(point)
AabbContains(pt) == \A i \in 1..3 : RLe(AabbMin[i], pt[i]) /\ RLe(pt[i], AabbMax[i])

\* AABB.sphere_radius(): half the length of the diagonal.  The scene's box has a
\* diagonal of whole length, so the square root is exact.
AabbSphereRadius ==
    LET d == VSub(AabbMax, AabbMin)
        n == VLenSq(d)[1]
        len == CHOOSE k \in 0..n : k * k = n
    IN  Q(len, 2)

-----------------------------------------------------------------------------
(* camera.py: look_at, fit and cast_ray. *)

RSign(a) == IF a[1] > 0 THEN 1 ELSE IF a[1] < 0 THEN -1 ELSE 0

\* Vector3.normalize() of a vector along a coordinate axis: its sign vector.  (The
\* vectors the model normalizes are all along an axis or zero; a zero vector makes
\* the program raise ZeroDivisionError.)
NormalizeAxis(v) == <<RSign(v[1]), RSign(v[2]), RSign(v[3])>>

\* The cross product u % v of integer vectors.
Cross(u, v) ==
    <<u[2] * v[3] - u[3] * v[2], u[3] * v[1] - u[1] * v[3], u[1] * v[2] - u[2] * v[1]>>

\* Whether Camera.look_at raises CameraError: up % forward is the zero vector.
LookAtRaises(position, tgt, up) ==
    Cross(up, NormalizeAxis(VSub(position, tgt))) = <<0, 0, 0>>

\* Camera.look_at(position, target, up_direction), when it does not raise: the pose
\* whose basis is (right, upward, forward).
CameraLookAt(position, tgt, up) ==
    LET forward == NormalizeAxis(VSub(position, tgt))
        right == Cross(up, forward)
        upward == Cross(forward, right)
    IN  Transform(<<<<right[1], upward[1], forward[1]>>,
                    <<right[2], upward[2], forward[2]>>,
                    <<right[3], upward[3], forward[3]>>>>, position)

\* Projection.project(point)[i] for i = 1 (x) or 2 (y): a coordinate of the
\* normalized device coordinates of a camera-space point, that is of the projection
\* matrix M applied to (x, y, z, 1) and divided by w.  It raises ZeroDivisionError
\* for a point with w = 0.
ProjectW(M, pt) == RAdd(RMul(Mat4At(M, 3, 2), pt[3]), Mat4At(M, 3, 3))
Project(M, pt, i) == RDiv(RMul(Mat4At(M, i - 1, i - 1), pt[i]), ProjectW(M, pt))

\* The coordinate i of the normalized device coordinates of eight points.
ProjectAll(M, pts, i) ==
    <<Project(M, pts[1], i), Project(M, pts[2], i), Project(M, pts[3], i),
      Project(M, pts[4], i), Project(M, pts[5], i), Project(M, pts[6], i),
      Project(M, pts[7], i), Project(M, pts[8], i)>>

\* sorted(points, key=-ndc)[0] and [-1]: Python's sort is stable, so the first of the
\* points of greatest coordinate and the last of the points of least coordinate.
FirstMax(keys) == CHOOSE k \in 1..8 :
    /\ \A j \in 1..8 : RLe(keys[j], keys[k])
    /\ \A j \in 1..(k - 1) : RLt(keys[j], keys[k])
LastMin(keys) == CHOOSE k \in 1..8 :
    /\ \A j \in 1..8 : RLe(keys[k], keys[j])
    /\ \A j \in (k + 1)..8 : RLt(keys[k], keys[j])

\* solve_deltas of Camera.fit; m is the index of the major axis (1 = x, 2 = y).
\* It divides by v3.z + v4.z.
SolveDeltas(m, v1, v2, v3, v4, pf) ==
    LET delta_major ==
            RDiv(RAdd(RSub(RSub(RNeg(RMul(pf, v1[m])), v1[3]), RMul(pf, v2[m])), v2[3]),
                 RMul(I(2), pf))
        delta_distance == RSub(RAdd(RMul(pf, delta_major), RMul(pf, v2[m])), v2[3])
        n == 3 - m
        delta_minor ==
            RDiv(RSub(RNeg(RMul(v4[3], v3[n])), RMul(v3[3], v4[n])), RAdd(v3[3], v4[3]))
    IN  <<delta_major, delta_minor, delta_distance>>

\* The first part of Camera.fit: step out of the bounding box, then centre on it.
FitOutside(c2w) ==
    IF AabbContains(Position(c2w))
    THEN Compose(c2w, FromTranslation(V3(Zero, Zero, AabbSphereRadius)))
    ELSE c2w
FitTrack(outside, centre) == CameraTrack(outside, centre[1], centre[2])
FitCentreOn(outside) == FitTrack(outside, ApplyPoint(WorldToCamera(outside), AabbCenter))
FitCentre(c2w) == FitCentreOn(FitOutside(c2w))

\* The end of Camera.fit: solve for the displacement from the four extreme corners
\* e (x_max, x_min, y_max, y_min, and y_major: whether the y extent is the larger)
\* and apply it.  The result is the new pose, the new projection, and "raise" when
\* the call raised ZeroDivisionError (solve_deltas divides by zero).
FitSolve(c, p, M, e) ==
    IF /\ p.kind = "persp"
       /\ IF e.y_major THEN RIsZero(RAdd(e.x_max[3], e.x_min[3]))
                       ELSE RIsZero(RAdd(e.y_max[3], e.y_min[3]))
    THEN [camera_to_world |-> c, projection |-> p, ret |-> "raise"]
    ELSE LET \* <<delta_x, delta_y, delta_z>>
             deltas ==
                 IF p.kind = "persp"
                 THEN IF e.y_major
                      THEN LET d == SolveDeltas(2, e.y_max, e.y_min, e.x_max, e.x_min, M[6])
                           IN  <<d[2], d[1], d[3]>>
                      ELSE SolveDeltas(1, e.x_max, e.x_min, e.y_max, e.y_min, M[1])
                 ELSE <<RDiv(RNeg(RAdd(e.x_max[1], e.x_min[1])), I(2)),
                        RDiv(RNeg(RAdd(e.y_max[2], e.y_min[2])), I(2)), Zero>>
             fitted ==
                 IF p.kind = "persp" THEN p
                 ELSE IF e.y_major THEN SetHeight(p, RSub(e.y_max[2], e.y_min[2]))
                 ELSE [p EXCEPT !.width = RSub(e.x_max[1], e.x_min[1])]
         IN  [camera_to_world |-> Compose(c, FromTranslation(VNeg(deltas))),
              projection |-> fitted, ret |-> "None"]

\* The sorting of Camera.fit: the corners of extreme x and of extreme y in
\* normalized device coordinates (xs, ys), and the larger of the two extents.
FitExtremes(pts, xs, ys, ix_max, ix_min, iy_max, iy_min) ==
    [x_max |-> pts[ix_max], x_min |-> pts[ix_min],
     y_max |-> pts[iy_max], y_min |-> pts[iy_min],
     y_major |-> RLt(RSub(xs[ix_max], xs[ix_min]), RSub(ys[iy_max], ys[iy_min]))]

FitSorted(c, p, M, pts, xs, ys) ==
    FitSolve(c, p, M,
             FitExtremes(pts, xs, ys, FirstMax(xs), LastMin(xs), FirstMax(ys), LastMin(ys)))

\* The projecting of Camera.fit: the corners pts in camera space are projected with
\* the projection matrix M.  It raises ZeroDivisionError when the matrix cannot be
\* computed or a corner cannot be projected, which leaves the camera centred and
\* nothing else done.
FitProjected(c, p, M, pts) ==
    IF \/ p.kind = "ortho" /\ RIsZero(p.width)
       \/ \E k \in 1..8 : RIsZero(ProjectW(M, pts[k]))
    THEN [camera_to_world |-> c, projection |-> p, ret |-> "raise"]
    ELSE FitSorted(c, p, M, pts, ProjectAll(M, pts, 1), ProjectAll(M, pts, 2))

FitCentred(c, p) == FitProjected(c, p, ProjMatrix(p), ApplyCorners(WorldToCamera(c)))

\* Camera.fit(world_aabb) with scale = 1.
CameraFit(c2w, p) == FitCentred(FitCentre(c2w), p)

\* Camera.cast_ray(ndc): <<origin, direction>> in world space.  With a perspective
\* projection the model casts through the centre of the view only, where the
\* direction (0, 0, -1) needs no normalizing.
CastRay(c2w, p, ndc) ==
    IF p.kind = "persp"
    THEN <<Position(c2w), ApplyVector(c2w, VI(0, 0, -1))>>
    ELSE <<ApplyPoint(c2w, CameraSpace(p, ndc)), ApplyVector(c2w, VI(0, 0, -1))>>

-----------------------------------------------------------------------------
(* camera_controller.py: inputs. *)

\* OrbitDirection: DOWN, LEFT, RIGHT, UP (yaw, pitch).
OrbitDirections == {<<0, 1>>, <<-1, 0>>, <<1, 0>>, <<0, -1>>}
\* RollDirection: CLOCKWISE, COUNTER_CLOCKWISE.
RollDirections == {-1, 1}
\* ScaleDirection: IN, OUT.
ScaleDirections == {-1, 1}
\* TrackDirection: DOWN, LEFT, RIGHT, UP.
TrackDirections == {<<0, -1>>, <<-1, 0>>, <<1, 0>>, <<0, 1>>}

\* CameraView: the preset views, in the order of the enumeration.
CameraViews == <<"BACK", "BOTTOM", "FRONT", "ISOMETRIC", "LEFT", "RIGHT", "TOP">>

\* CameraView.value: the view direction.
ViewValue(view) ==
    CASE view = "BACK" -> <<0, -1, 0>>
      [] view = "BOTTOM" -> <<0, 0, 1>>
      [] view = "FRONT" -> <<0, 1, 0>>
      [] view = "ISOMETRIC" -> <<-1, 1, -1>>
      [] view = "LEFT" -> <<1, 0, 0>>
      [] view = "RIGHT" -> <<-1, 0, 0>>
      [] view = "TOP" -> <<0, 0, -1>>

\* An up vector that is Z for every view.
ViewUpAlwaysZ(view) == <<0, 0, 1>>

\* CameraView.up_vector: Y when the direction is at angle 0 to Z, -Y when it is at
\* angle pi, and Z otherwise.
ViewUp(view) ==
    LET v == ViewValue(view)
    IN  IF v[1] = 0 /\ v[2] = 0 /\ v[3] > 0 THEN <<0, 1, 0>>
        ELSE IF v[1] = 0 /\ v[2] = 0 /\ v[3] < 0 THEN <<0, -1, 0>>
        ELSE <<0, 0, 1>>

\* The presets the model draws, all along a coordinate axis (the isometric
\* direction has no exact unit vector).
DrawnViews == {"BACK", "BOTTOM", "FRONT", "LEFT", "RIGHT", "TOP"}

\* Scroll vectors and cursor movements delivered with an orbit event.
OrbitScrolls == {<<1, 1>>}
OrbitCursorDeltas == {<<1, -1>>}
\* Drags delivered with a roll event: <<cursor position, cursor movement>>.  The
\* first starts at the centre of the screen.
RollDrags == {<<<<1, 1>>, <<1, 1>>>>, <<<<1, 1>>, <<0, 1>>>>}
\* Cursor movements delivered with a track event.
TrackCursorDeltas == {<<1, 1>>}
\* Cursor movements delivered with a scale event.
ScaleCursorDeltas == {<<0, 1>>, <<0, -1>>}
\* Scrolls delivered with a scale event: <<cursor position, scroll>>.
ScaleScrolls == {<<<<1, 1>>, <<0, 1>>>>, <<<<1, 1>>, <<0, -1>>>>}
\* Output sizes in pixels.
OutputSizes == {<<200, 100>>, <<100, 100>>}
\* Ray parameters of a pick that hits an entity.
HitDistances == {10}

-----------------------------------------------------------------------------
(* camera_controller.py: the controller. *)

NoCall == [op |-> "init", mode |-> "", arg |-> <<>>, cam |-> <<>>]

\* No object: the last call was a command of the controller.
NoObject == [kind |-> "none"]

Snapshot ==
    [camera_to_world |-> camera_to_world, projection |-> projection, target |-> target,
     orbit_type |-> orbit_type, is_locked |-> is_locked, call |-> call]

\* CameraController._dolly_will_clip(displacement)
RMinOf(zs) == CHOOSE z \in zs : \A y \in zs : RLe(z, y)
\* The front of the scene (the greatest z) taken for its back.
FrontOfScene(pts) == RNeg(RMinOf({RNeg(pts[k][3]) : k \in 1..8}))
BackOfScene(pts) == RMinOf({pts[k][3] : k \in 1..8})
\* A guard that lets every dolly through.
DollyNeverClips(c2w, p, displacement) == FALSE
DollyWillClip(c2w, p, displacement) ==
    /\ RLt(Zero, displacement)
    /\ RLt(p.far_clip, RSub(displacement, BackOfScene(ApplyCorners(WorldToCamera(c2w)))))

\* The part of CameraController.scale after the amount is known: the new pose, the
\* new projection and the value returned.
ScaleBy(c2w, p, amount) ==
    IF p.kind = "persp"
    THEN IF DollyWillClip(c2w, p, amount)
         THEN [camera_to_world |-> c2w, projection |-> p, ret |-> "False"]
         ELSE [camera_to_world |-> CameraDolly(c2w, amount), projection |-> p, ret |-> "True"]
    ELSE [camera_to_world |-> c2w, projection |-> OrthoZoom(p, amount), ret |-> "True"]

\* The body of CameraController.projection_toggle: the new pose and projection.
\* projection_toggle that leaves the camera where it is on the way back to perspective.
ToggledAtNoDolly(c2w, p, point, constant) ==
    IF p.kind = "persp"
    THEN [projection |-> OrthoProjection(p.aspect, p.near_clip, p.far_clip,
                                         RMul(constant, point[3])),
          camera_to_world |->
              IF AabbContains(Position(c2w))
              THEN CameraDolly(c2w, RMul(I(2), AabbSphereRadius))
              ELSE c2w]
    ELSE [camera_to_world |-> c2w,
          projection |-> PerspectiveProjection(p.aspect, p.near_clip, p.far_clip,
                                               VerticalFov)]

ToggledAt(c2w, p, point, constant) ==
    IF p.kind = "persp"
    THEN [projection |-> OrthoProjection(p.aspect, p.near_clip, p.far_clip,
                                         RMul(constant, point[3])),
          camera_to_world |->
              IF AabbContains(Position(c2w))
              THEN CameraDolly(c2w, RMul(I(2), AabbSphereRadius))
              ELSE c2w]
    ELSE [camera_to_world |-> CameraDolly(c2w, RSub(point[3], RDiv(p.width, constant))),
          projection |-> PerspectiveProjection(p.aspect, p.near_clip, p.far_clip,
                                               VerticalFov)]
ProjectionToggled(c2w, p) ==
    ToggledAt(c2w, p, ApplyPoint(WorldToCamera(c2w), AabbCenter),
              RMul(RMul(I(-2), p.aspect), VerticalFov))

\* The controller as CameraController.__init__ leaves it.  Its camera is the one of
\* Camera(), whose default projection is a perspective one; the projection a camera
\* needs a vertical field of view for is given the one of the settings here (see
\* NewCamera for the constructor called without arguments).
Constructed ==
    [camera_to_world |-> IdentityTransform,
     projection |-> PerspectiveProjection(DefaultAspect, DefaultNearClip, I(FarClip),
                                          VerticalFov),
     target |-> VZero, orbit_type |-> "CONSTRAINED", is_locked |-> FALSE, call |-> NoCall]

\* The controller states a run starts from: the constructed one; the one after
\* scaling in by one step, which puts the camera inside the scene's bounds; the one
\* after toggling the projection, which makes it orthographic; and the one after
\* orbiting by one step to the right, which turns the camera.
StartStates ==
    { Constructed,
      [Constructed EXCEPT !.camera_to_world =
          CameraOrbit(Constructed.camera_to_world, Constructed.target, 0, OrbitStep,
                      Constructed.orbit_type)],
      [Constructed EXCEPT !.camera_to_world =
          ScaleBy(Constructed.camera_to_world, Constructed.projection,
                  I(-ScaleStep)).camera_to_world],
      [Constructed EXCEPT !.projection =
          ProjectionToggled(Constructed.camera_to_world, Constructed.projection).projection] }

\* InputHandler.__init__: no button held down, no modifiers, no cursor position yet
\* (<<>> stands for None).
NewInputHandler ==
    [current_button_down |-> <<>>, current_key_modifiers |-> "",
     last_cursor_position |-> <<>>]

\* The window when the handler is attached: no mouse button is held down, the cursor
\* is at the top-left corner and no event has been received.
NewWindow == [buttons_down |-> {}, cursor |-> <<0, 0>>, received |-> <<>>]

Init ==
    /\ pre \in StartStates
    /\ camera_to_world = pre.camera_to_world
    /\ projection = pre.projection
    /\ target = pre.target
    /\ orbit_type = pre.orbit_type
    /\ is_locked = pre.is_locked
    /\ call = NoCall
    /\ ret = "None"
    /\ nops = 0
    /\ obj = NoObject
    /\ handler = NewInputHandler
    /\ window = NewWindow

\* One invocation that constructs or unpacks the object o: the bookkeeping shared by
\* all operations.
InvokeWith(c, r, o) ==
    /\ nops < MaxOps
    /\ nops' = nops + 1
    /\ pre' = Snapshot
    /\ call' = c
    /\ ret' = r
    /\ obj' = o
    /\ UNCHANGED <<handler, window>>

\* One invocation of a command of the controller.
Invoke(c, r) == InvokeWith(c, r, NoObject)

\* The (yaw, pitch) angles of CameraController.orbit for each input shape.
OrbitAngles(mode, v) ==
    CASE mode = "direction" -> <<OrbitStep * v[1], OrbitStep * v[2]>>
      [] mode = "scroll" -> <<OrbitStep * v[1], OrbitStep * v[2]>>
      [] mode = "cursor" -> <<OrbitSpeed * (-v[1]), OrbitSpeed * v[2]>>

\* CameraController.orbit
Orbit(mode, v) ==
    LET angles == OrbitAngles(mode, v)
        yaw == angles[1]
        pitch == angles[2]
    IN  /\ Invoke([op |-> "orbit", mode |-> mode, arg |-> v, cam |-> <<I(pitch), I(yaw)>>],
                  "None")
        /\ camera_to_world' =
              IF is_locked THEN camera_to_world
              ELSE CameraOrbit(camera_to_world, target, pitch, yaw, orbit_type)
        /\ UNCHANGED <<projection, target, orbit_type, is_locked>>

\* An orbit_toggle that always selects the free orbit.
OrbitToggleSetsFree ==
    /\ Invoke([op |-> "orbit_toggle", mode |-> "", arg |-> <<>>, cam |-> <<>>], "None")
    /\ orbit_type' = "FREE"
    /\ UNCHANGED <<camera_to_world, projection, target, is_locked>>

\* CameraController.orbit_toggle
OrbitToggle ==
    /\ Invoke([op |-> "orbit_toggle", mode |-> "", arg |-> <<>>, cam |-> <<>>], "None")
    /\ orbit_type' = IF orbit_type = "CONSTRAINED" THEN "FREE" ELSE "CONSTRAINED"
    /\ UNCHANGED <<camera_to_world, projection, target, is_locked>>

\* CameraController.lock_toggle
LockToggle ==
    /\ Invoke([op |-> "lock_toggle", mode |-> "", arg |-> <<>>, cam |-> <<>>], "None")
    /\ is_locked' = ~is_locked
    /\ UNCHANGED <<camera_to_world, projection, target, orbit_type>>

\* The sign vector of an axis-aligned 2D integer vector (Vector3.normalize for the
\* radius vectors the model draws).
Normalize2(v) ==
    <<IF v[1] > 0 THEN 1 ELSE IF v[1] < 0 THEN -1 ELSE 0,
      IF v[2] > 0 THEN 1 ELSE IF v[2] < 0 THEN -1 ELSE 0>>

\* The roll angle of a cursor drag: the drag projected on the unit tangent of the
\* radius from the screen centre to the drag's start.
RollCursorAngle(cursor_position, cursor_delta) ==
    LET radius == <<cursor_position[1] - cursor_delta[1], cursor_position[2] - cursor_delta[2]>>
        tangent == Normalize2(<<radius[2], -radius[1]>>)
    IN  RollSpeed * (cursor_delta[1] * tangent[1] + cursor_delta[2] * tangent[2])

\* A roll by a named direction that ignores the lock.
RollDirectionUnlocked(direction) ==
    LET angle == direction * RollStep
    IN  /\ Invoke([op |-> "roll", mode |-> "direction", arg |-> <<direction>>,
                   cam |-> <<I(angle)>>], "None")
        /\ camera_to_world' = CameraRoll(camera_to_world, angle)
        /\ UNCHANGED <<projection, target, orbit_type, is_locked>>

\* CameraController.roll with a named direction
RollDirection(direction) ==
    LET angle == direction * RollStep
    IN  /\ Invoke([op |-> "roll", mode |-> "direction", arg |-> <<direction>>,
                   cam |-> <<I(angle)>>], "None")
        /\ camera_to_world' =
              IF is_locked THEN camera_to_world ELSE CameraRoll(camera_to_world, angle)
        /\ UNCHANGED <<projection, target, orbit_type, is_locked>>

\* CameraController.roll with a cursor drag
RollCursor(cursor_position, cursor_delta) ==
    LET radius == <<cursor_position[1] - cursor_delta[1], cursor_position[2] - cursor_delta[2]>>
        angle == RollCursorAngle(cursor_position, cursor_delta)
    IN  \* the radius is axis-aligned or zero, so that its unit tangent is exact
        /\ radius[1] = 0 \/ radius[2] = 0
        /\ Invoke([op |-> "roll", mode |-> "cursor",
                   arg |-> cursor_position \o cursor_delta, cam |-> <<I(angle)>>], "None")
        /\ camera_to_world' =
              IF is_locked \/ radius = <<0, 0>>
              THEN camera_to_world
              ELSE CameraRoll(camera_to_world, angle)
        /\ UNCHANGED <<projection, target, orbit_type, is_locked>>

\* The camera-space translation of CameraController.track for each input shape.
TrackCursor(delta) ==
    IF projection.kind = "persp"
    THEN VScale(RNeg(ApplyPoint(WorldToCamera(camera_to_world), target)[3]), delta)
    ELSE delta
TrackDelta(mode, v) ==
    IF mode = "direction"
    THEN VScale(I(-TrackStep), VI(v[1], v[2], 0))
    ELSE TrackCursor(VNeg(CameraSpace(projection, <<I(v[1]), I(v[2])>>)))

\* CameraController.track
Track(mode, v) ==
    /\ nops < MaxOps
    /\ \E delta \in {TrackDelta(mode, v)} :
        /\ Invoke([op |-> "track", mode |-> mode, arg |-> v, cam |-> <<delta[1], delta[2]>>],
                  "None")
        /\ camera_to_world' = CameraTrack(camera_to_world, delta[1], delta[2])
        /\ UNCHANGED <<projection, target, orbit_type, is_locked>>

\* The amount of CameraController.scale for a named direction or a cursor movement.
ScaleAmount(mode, v) ==
    IF mode = "direction" THEN I(v[1] * ScaleStep) ELSE I(ScaleSpeed * v[2])

\* CameraController.scale with a named direction or a cursor movement
Scale(mode, v) ==
    /\ nops < MaxOps
    /\ \E r \in {ScaleBy(camera_to_world, projection, ScaleAmount(mode, v))} :
        /\ Invoke([op |-> "scale", mode |-> mode, arg |-> v,
                   cam |-> <<ScaleAmount(mode, v)>>], r.ret)
        /\ camera_to_world' = r.camera_to_world
        /\ projection' = r.projection
        /\ UNCHANGED <<target, orbit_type, is_locked>>

\* CameraController._scale_to_cursor(cursor_position, direction).  The unit vector
\* through the cursor is only used divided by its own z, so its length cancels.
\* Dividing by an orthographic width of zero raises ZeroDivisionError before
\* anything is changed.
CursorAlong(cursor_camera_point, delta_scale) ==
    VScale(RDiv(I(delta_scale), cursor_camera_point[3]), cursor_camera_point)
CursorDelta(p, along) ==
    IF p.kind = "ortho" THEN VScale(RDiv(One, p.width), along) ELSE along
\* r is the outcome of self.scale(None, Vector3(0, delta_scale), None, None).
CursorTracked(r, delta_scale, delta_camera) ==
    IF r.ret = "True" /\ delta_scale < 0
    THEN [r EXCEPT !.camera_to_world =
              CameraTrack(r.camera_to_world, delta_camera[1], delta_camera[2])]
    ELSE r
ScaleToCursor(c2w, p, cursor_position, direction) ==
    IF p.kind = "ortho" /\ RIsZero(p.width)
    THEN [camera_to_world |-> c2w, projection |-> p, ret |-> "raise"]
    ELSE CursorTracked(
             ScaleBy(c2w, p, I(ScaleSpeed * (direction * ScaleStep))),
             direction * ScaleStep,
             CursorDelta(p, CursorAlong(CameraSpace(p, <<I(cursor_position[1]),
                                                         I(cursor_position[2])>>),
                                        direction * ScaleStep)))

\* CameraController.scale with a scroll: it returns False whatever was done.
ScaleScroll(cursor_position, scroll) ==
    /\ nops < MaxOps
    /\ \E r \in {ScaleToCursor(camera_to_world, projection, cursor_position,
                            scroll[2] * ScaleIn)} :
        /\ Invoke([op |-> "scale", mode |-> "scroll", arg |-> cursor_position \o scroll,
                   cam |-> <<I(ScaleSpeed * scroll[2] * ScaleIn * ScaleStep)>>],
                  IF r.ret = "raise" THEN "raise" ELSE "False")
        /\ camera_to_world' = r.camera_to_world
        /\ projection' = r.projection
        /\ UNCHANGED <<target, orbit_type, is_locked>>

\* CameraController.projection_toggle
ProjectionToggle ==
    /\ nops < MaxOps
    /\ \E r \in {ProjectionToggled(camera_to_world, projection)} :
        /\ Invoke([op |-> "projection_toggle", mode |-> "", arg |-> <<>>, cam |-> <<>>], "None")
        /\ camera_to_world' = r.camera_to_world
        /\ projection' = r.projection
        /\ UNCHANGED <<target, orbit_type, is_locked>>

\* CameraController.update_output_size(size)
UpdateOutputSize(size) ==
    /\ size[1] > 0 /\ size[2] > 0
    /\ Invoke([op |-> "update_output_size", mode |-> "", arg |-> size, cam |-> <<>>], "None")
    /\ projection' = ProjResize(projection, I(size[1]), I(size[2]))
    /\ UNCHANGED <<camera_to_world, target, orbit_type, is_locked>>

\* CameraController.fit
Fit ==
    /\ nops < MaxOps
    /\ \E r \in {CameraFit(camera_to_world, projection)} :
        /\ Invoke([op |-> "fit", mode |-> "", arg |-> <<>>, cam |-> <<>>], r.ret)
        /\ camera_to_world' = r.camera_to_world
        /\ projection' = r.projection
        /\ UNCHANGED <<target, orbit_type, is_locked>>

\* The camera position CameraController.view looks at the scene from.
ViewPosition(direction) ==
    VSub(AabbCenter, VScale(AabbSphereRadius, VI(direction[1], direction[2], direction[3])))

ViewFrom(c2w, p, camera_position, up) ==
    IF LookAtRaises(camera_position, AabbCenter, up)
    THEN [camera_to_world |-> c2w, projection |-> p, ret |-> "CameraError"]
    ELSE CameraFit(CameraLookAt(camera_position, AabbCenter, up), p)

\* CameraController.view without the test of the lock.
ViewBodyUnlocked(c2w, p, locked, view) ==
    ViewFrom(c2w, p, ViewPosition(ViewValue(view)), ViewUp(view))

\* The body of CameraController.view(view): the new pose, the new projection, and
\* "raise" when the call raised.
ViewBody(c2w, p, locked, view) ==
    IF locked THEN [camera_to_world |-> c2w, projection |-> p, ret |-> "None"]
    ELSE ViewFrom(c2w, p, ViewPosition(ViewValue(view)), ViewUp(view))

\* CameraController.view
View(view) ==
    /\ nops < MaxOps
    /\ \E r \in {ViewBody(camera_to_world, projection, is_locked, view)} :
        /\ Invoke([op |-> "view", mode |-> view, arg |-> <<>>, cam |-> <<>>], r.ret)
        /\ camera_to_world' = r.camera_to_world
        /\ projection' = r.projection
        /\ UNCHANGED <<target, orbit_type, is_locked>>

\* The views CameraController.normal_to chooses from: all but ISOMETRIC.
AxisViews == SelectSeq(CameraViews, LAMBDA v : v # "ISOMETRIC")

\* The cosine of the angle between a view's direction and the camera's.
ViewCosine(direction, forward) ==
    VDot(VI(direction[1], direction[2], direction[3]), forward)
ViewCosines(forward) ==
    <<ViewCosine(ViewValue(AxisViews[1]), forward), ViewCosine(ViewValue(AxisViews[2]), forward),
      ViewCosine(ViewValue(AxisViews[3]), forward), ViewCosine(ViewValue(AxisViews[4]), forward),
      ViewCosine(ViewValue(AxisViews[5]), forward), ViewCosine(ViewValue(AxisViews[6]), forward)>>

\* The views are sorted by their angle to the camera's direction (a stable sort, so
\* by the cosine, greatest first, ties in the order of the enumeration).
FirstView(cosines) == CHOOSE k \in 1..6 :
    /\ \A j \in 1..6 : RLe(cosines[j], cosines[k])
    /\ \A j \in 1..(k - 1) : RLt(cosines[j], cosines[k])
LastView(cosines) == CHOOSE k \in 1..6 :
    /\ \A j \in 1..6 : RLe(cosines[k], cosines[j])
    /\ \A j \in (k + 1)..6 : RLt(cosines[k], cosines[j])

\* The view CameraController.normal_to selects: the first of the sorted views, or
\* the last when the first is at angle 0.
SelectView(cosines, first) ==
    IF cosines[first] = One THEN AxisViews[LastView(cosines)] ELSE AxisViews[first]
NearestOf(cosines) == SelectView(cosines, FirstView(cosines))
NearestView(c2w) == NearestOf(ViewCosines(ApplyVector(c2w, VI(0, 0, -1))))

\* CameraController.normal_to
NormalToView(view) ==
    /\ nops < MaxOps
    /\ \E r \in {ViewBody(camera_to_world, projection, is_locked, view)} :
        /\ Invoke([op |-> "normal_to", mode |-> view, arg |-> <<>>, cam |-> <<>>], r.ret)
        /\ camera_to_world' = r.camera_to_world
        /\ projection' = r.projection
        /\ UNCHANGED <<target, orbit_type, is_locked>>
NormalTo == \E view \in {NearestView(camera_to_world)} : NormalToView(view)

\* SceneViewport._update_camera_target that leaves the target unset on a miss in a
\* scene without entities.
PickedTargetOrNone(ray, hit, t, entities) ==
    IF hit THEN VAdd(ray[1], VScale(I(t), ray[2])) ELSE IF entities THEN AabbCenter ELSE <<>>

\* The target SceneViewport._update_camera_target sets: ray.evaluate(intersection.t) on
\* a hit, else the centre of the scene's bounds if the scene has entities, else the
\* origin.
PickedTarget(ray, hit, t, entities) ==
    IF hit THEN VAdd(ray[1], VScale(I(t), ray[2])) ELSE IF entities THEN AabbCenter ELSE VZero

\* SceneViewport._update_camera_target(cursor_position): a click in the viewport.  The
\* pick hits an entity at parameter t of the ray, or misses; the scene a pick misses in
\* may have no entities yet.
Click(cursor_position, hit, t, entities) ==
    /\ nops < MaxOps
    /\ \E ray \in {CastRay(camera_to_world, projection,
                        <<I(cursor_position[1]), I(cursor_position[2])>>)} :
        /\ Invoke([op |-> "click",
                   mode |-> IF hit THEN "hit" ELSE IF entities THEN "miss" ELSE "empty",
                   arg |-> cursor_position \o <<t>>, cam |-> <<>>], "None")
        /\ target' = PickedTarget(ray, hit, t, entities)
        /\ UNCHANGED <<camera_to_world, projection, orbit_type, is_locked>>

Next ==
    \/ \E v \in OrbitDirections : Orbit("direction", v)
    \/ \E v \in OrbitScrolls : Orbit("scroll", v)
    \/ \E v \in OrbitCursorDeltas : Orbit("cursor", v)
    \/ OrbitToggle
    \/ LockToggle
    \/ \E d \in RollDirections : RollDirection(d)
    \/ \E drag \in RollDrags : RollCursor(drag[1], drag[2])
    \/ \E v \in TrackDirections : Track("direction", v)
    \/ \E v \in TrackCursorDeltas : Track("cursor", v)
    \/ \E d \in ScaleDirections : Scale("direction", <<d>>)
    \/ \E v \in ScaleCursorDeltas : Scale("cursor", v)
    \/ \E s \in ScaleScrolls : ScaleScroll(s[1], s[2])
    \/ ProjectionToggle
    \/ \E size \in OutputSizes : UpdateOutputSize(size)
    \/ Fit
    \/ \E view \in DrawnViews : View(view)
    \/ NormalTo
    \/ \E t \in HitDistances : Click(<<0, 0>>, TRUE, t, TRUE)
    \/ \E entities \in BOOLEAN : Click(<<0, 0>>, FALSE, 0, entities)

Spec == Init /\ [][Next]_vars

-----------------------------------------------------------------------------
(* The calls of the library below the controller: the constructors of the     *)
(* projections, of the camera and of the grid layout, Camera.look_at, and     *)
(* the unpacking of an input event into the arguments of a camera command.    *)
(* An argument that may be omitted is None or a one-element tuple.            *)

None == <<>>

Some(x) == <<x>>

\* Python's "value or default": None and zero are replaced, anything else is kept.
OrDefault(value, default) ==
    IF value = None THEN default
    ELSE IF RIsZero(value[1]) THEN default
    ELSE value[1]

DefaultFarClip == 10000

\* OrthoProjection(aspect=, near_clip=, far_clip=, width=): what the constructor builds.
NewOrthoProjection(aspect, near_clip, far_clip, width) ==
    [raised |-> "None",
     value |-> OrthoProjection(OrDefault(aspect, DefaultAspect),
                               OrDefault(near_clip, DefaultNearClip),
                               OrDefault(far_clip, I(DefaultFarClip)),
                               IF width = None THEN One ELSE width[1])]

\* PerspectiveProjection(aspect=, near_clip=, far_clip=, vertical_fov=): vertical_fov is
\* a required keyword.
NewPerspectiveProjection(aspect, near_clip, far_clip, vertical_fov) ==
    IF vertical_fov = None THEN [raised |-> "TypeError", value |-> NoObject]
    ELSE [raised |-> "None",
          value |-> PerspectiveProjection(OrDefault(aspect, DefaultAspect),
                                          OrDefault(near_clip, DefaultNearClip),
                                          OrDefault(far_clip, I(DefaultFarClip)),
                                          vertical_fov[1])]

\* Arguments (aspect, near_clip, far_clip, width) of the OrthoProjection constructor.
OrthoArguments ==
    { <<None, None, None, None>>,
      <<Some(I(2)), None, None, Some(I(2))>>,
      <<Some(I(2)), Some(DefaultNearClip), Some(I(FarClip)), Some(I(2))>>,
      <<Some(Zero), None, None, None>>,
      <<Some(I(-1)), None, None, None>>,
      <<None, Some(Zero), None, None>>,
      <<None, Some(I(-1)), None, None>>,
      <<None, None, Some(Zero), None>>,
      <<None, None, Some(I(-1)), None>>,
      <<None, None, None, Some(Zero)>>,
      <<None, None, None, Some(I(-1))>> }

\* Arguments (aspect, near_clip, far_clip, vertical_fov) of the PerspectiveProjection
\* constructor.
PerspectiveArguments ==
    { <<None, None, None, None>>,
      <<None, None, None, Some(VerticalFov)>>,
      <<Some(I(2)), Some(DefaultNearClip), Some(I(FarClip)), Some(VerticalFov)>>,
      <<Some(Zero), None, None, Some(VerticalFov)>>,
      <<Some(I(-1)), None, None, Some(VerticalFov)>>,
      <<None, Some(I(-1)), None, Some(VerticalFov)>>,
      <<None, None, Some(Zero), Some(VerticalFov)>> }

\* The call OrthoProjection(...); the controller is left alone.
ConstructOrtho(a) ==
    /\ \E r \in {NewOrthoProjection(a[1], a[2], a[3], a[4])} :
        InvokeWith([op |-> "OrthoProjection", mode |-> "", arg |-> a, cam |-> <<>>],
                   r.raised, r.value)
    /\ UNCHANGED <<camera_to_world, projection, target, orbit_type, is_locked>>

\* The call PerspectiveProjection(...); the controller is left alone.
ConstructPerspective(a) ==
    /\ \E r \in {NewPerspectiveProjection(a[1], a[2], a[3], a[4])} :
        InvokeWith([op |-> "PerspectiveProjection", mode |-> "", arg |-> a, cam |-> <<>>],
                   r.raised, r.value)
    /\ UNCHANGED <<camera_to_world, projection, target, orbit_type, is_locked>>

\* Camera.look_at with a default orientation substituted where the code raises.
LookAtPoseDefaulted(c2w, position, tgt, up) ==
    [camera_to_world |-> Transform(IdentityRot, position), ret |-> "CameraError"]

\* Camera.look_at(position, target, up_direction) on a camera of pose c2w: the pose
\* after the call and what it raised.  Normalizing target - position divides by its
\* length outside the try block; the pose is assigned in the last statement only.
LookAtPose(c2w, position, tgt, up) ==
    IF position = tgt THEN [camera_to_world |-> c2w, ret |-> "ZeroDivisionError"]
    ELSE IF LookAtRaises(position, tgt, IF up = None THEN <<0, 0, 1>> ELSE up[1])
    THEN [camera_to_world |-> c2w, ret |-> "CameraError"]
    ELSE [camera_to_world |->
              CameraLookAt(position, tgt, IF up = None THEN <<0, 0, 1>> ELSE up[1]),
          ret |-> "None"]

\* Arguments (position, target, up_direction) of Camera.look_at.
LookAtArguments ==
    {<<position, VZero, up>> :
        position \in {VI(0, 0, 5), VI(0, -5, 0), VI(3, 0, 0), VZero},
        up \in {None, Some(<<0, 0, 1>>), Some(<<0, 0, -1>>), Some(<<0, 1, 0>>)}}

\* Camera.look_at on the controller's camera.
LookAt(a) ==
    /\ nops < MaxOps
    /\ \E r \in {LookAtPose(camera_to_world, a[1], a[2], a[3])} :
        /\ Invoke([op |-> "look_at", mode |-> "", arg |-> a, cam |-> <<>>], r.ret)
        /\ camera_to_world' = r.camera_to_world
        /\ UNCHANGED <<projection, target, orbit_type, is_locked>>

\* Camera(camera_to_world=, projection=): "projection or PerspectiveProjection()" and
\* "camera_to_world or Transform()"; the call of PerspectiveProjection without its
\* vertical_fov raises before anything is assigned.
NewCamera(c2w, p) ==
    IF p = None /\ NewPerspectiveProjection(None, None, None, None).raised # "None"
    THEN [raised |-> NewPerspectiveProjection(None, None, None, None).raised,
          value |-> NoObject]
    ELSE [raised |-> "None",
          value |-> [kind |-> "camera",
                     projection |-> IF p = None
                                    THEN NewPerspectiveProjection(None, None, None, None).value
                                    ELSE p[1],
                     camera_to_world |-> IF c2w = None THEN IdentityTransform ELSE c2w[1]]]

\* Arguments (camera_to_world, projection) of the Camera constructor.
CameraArguments ==
    { <<None, None>>,
      <<None, Some(NewOrthoProjection(None, None, None, None).value)>>,
      <<Some(FromTranslation(VI(0, 0, 5))),
        Some(NewPerspectiveProjection(None, None, None, Some(VerticalFov)).value)>> }

\* The call Camera(...); the controller is left alone.
ConstructCamera(a) ==
    /\ \E r \in {NewCamera(a[1], a[2])} :
        InvokeWith([op |-> "Camera", mode |-> "", arg |-> a, cam |-> <<>>],
                   r.raised, r.value)
    /\ UNCHANGED <<camera_to_world, projection, target, orbit_type, is_locked>>

\* settings.bindings: <<modifiers, key or button or scroll, method, parameter>> for
\* each input group of each "camera.<method>[.<parameter>]" binding.
DefaultBindings ==
    { <<"", "f", "fit", None>>,
      <<"ctrl+shift", "o", "lock_toggle", None>>,
      <<"", "v", "normal_to", None>>,
      <<"", "button_middle", "orbit", None>>,
      <<"", "scroll_horizontal", "orbit", None>>,
      <<"", "down", "orbit", Some("down")>>,
      <<"", "left", "orbit", Some("left")>>,
      <<"", "right", "orbit", Some("right")>>,
      <<"", "up", "orbit", Some("up")>>,
      <<"", "o", "orbit_toggle", None>>,
      <<"", "p", "projection_toggle", None>>,
      <<"alt", "button_middle", "roll", None>>,
      <<"alt", "right", "roll", Some("clockwise")>>,
      <<"alt", "left", "roll", Some("counter_clockwise")>>,
      <<"shift", "button_middle", "scale", None>>,
      <<"", "scroll_vertical", "scale", None>>,
      <<"", "z", "scale", Some("in")>>,
      <<"shift", "z", "scale", Some("out")>>,
      <<"ctrl", "button_middle", "track", None>>,
      <<"ctrl", "down", "track", Some("down")>>,
      <<"ctrl", "left", "track", Some("left")>>,
      <<"ctrl", "right", "track", Some("right")>>,
      <<"ctrl", "up", "track", Some("up")>>,
      <<"ctrl", "2", "view", Some("back")>>,
      <<"ctrl", "6", "view", Some("bottom")>>,
      <<"ctrl", "1", "view", Some("front")>>,
      <<"ctrl", "7", "view", Some("isometric")>>,
      <<"ctrl", "4", "view", Some("left")>>,
      <<"ctrl", "3", "view", Some("right")>>,
      <<"ctrl", "5", "view", Some("top")>> }

\* InputEvent(event_type, **kwargs): every attribute not passed is None.
InputEvent(event_type, action, button, key, modifiers, cursor_position, cursor_delta, scroll) ==
    [event_type |-> event_type, action |-> action, button |-> button, command |-> None,
     cursor_delta |-> cursor_delta, cursor_position |-> cursor_position, key |-> key,
     modifiers |-> modifiers, scroll |-> scroll, size |-> None]

\* The events InputHandler builds from the GLFW callbacks, with InputEvent.Key, Click,
\* Movement (a drag when a button is held down) and Scroll.
InputEvents ==
    {InputEvent("KEY", Some(a), None, Some(k), Some(m), None, None, None) :
        a \in {"PRESS", "RELEASE"}, k \in {"down", "z", "f", "7", "a"},
        m \in {"", "alt", "ctrl", "shift"}}
    \cup {InputEvent("CLICK", Some(a), Some(b), None, Some(m), Some(<<1, 1>>), None, None) :
        a \in {"PRESS", "RELEASE"}, b \in {"button_left", "button_middle"},
        m \in {"", "alt", "ctrl", "shift"}}
    \cup {InputEvent(IF b = None THEN "CURSOR" ELSE "DRAG", None, b, None, Some(m),
                     Some(<<1, 1>>), Some(<<1, -1>>), None) :
        b \in {None, Some("button_left"), Some("button_middle")},
        m \in {"", "alt", "ctrl", "shift"}}
    \cup {InputEvent("SCROLL", None, None, None, Some(m), Some(<<1, 1>>), None, Some(v)) :
        v \in {<<1, 0>>, <<0, -1>>}, m \in {"", "shift"}}

\* Bindings.command(event): the route bound to the event's input, or None.
BindingsCommand(event) ==
    LET input == IF event.event_type = "SCROLL"
                 THEN Some(IF event.scroll[1][1] # 0 THEN "scroll_horizontal"
                           ELSE "scroll_vertical")
                 ELSE IF event.button # None THEN event.button ELSE event.key
        bound == {b \in DefaultBindings : input # None /\ event.modifiers = Some(b[1])
                                              /\ b[2] = input[1]}
    IN  IF bound = {} THEN None
        ELSE LET b == CHOOSE b \in bound : TRUE
             IN  Some([controller |-> "camera", method |-> b[3], parameter |-> b[4]])

\* An _emit that hands every event to the window, releases and repeats included.
EmitEverything(event) == Some([event EXCEPT !.command = BindingsCommand(event)])

\* InputHandler._emit(event): the event handed to the window, with its command, or
\* None for the releases and repeats of keys and buttons, which are dropped.
Emit(event) ==
    IF event.event_type \in {"KEY", "CLICK"} /\ event.action \in {Some("RELEASE"), Some("REPEAT")}
    THEN None
    ELSE Some([event EXCEPT !.command = BindingsCommand(event)])

\* A viewport that passes events of every type with a camera command on to the
\* controller.
DeliveredOfAnyType(event) ==
    event.command # None /\ event.command[1].controller = "camera"

\* SceneViewport.on_event: whether the event is passed to CameraController.command,
\* that is a drag or a key with a command of the camera controller.  The code spells
\* the test of the controller event.command[0] == "camera", an index a CommandRoute
\* dataclass does not support; it is taken here as the comparison of the route's
\* controller that it stands for.
Delivered(event) ==
    /\ event.event_type \in {"DRAG", "KEY"}
    /\ event.command # None /\ event.command[1].controller = "camera"

\* The names of the parameters of the command handlers of CameraController.
HandlerParameters(method) ==
    CASE method = "orbit" -> <<"cursor_delta", "scroll", "direction">>
      [] method = "roll" -> <<"cursor_position", "cursor_delta", "direction">>
      [] method = "scale" -> <<"cursor_position", "cursor_delta", "scroll", "direction">>
      [] method = "track" -> <<"cursor_delta", "direction">>
      [] method = "view" -> <<"view">>
      [] OTHER -> <<>>

\* What command.wrapper passes to the handler of the event's command: the attribute
\* of the event for a parameter named like one, else the parameter of the route
\* (converted to the member of the annotated enumeration of that name; None stays
\* None).
Unpacked(event) ==
    LET names == HandlerParameters(event.command[1].method)
    IN  [kind |-> "call", method |-> event.command[1].method, names |-> names,
         args |-> [k \in 1..Len(names) |->
                      IF names[k] \in DOMAIN event THEN event[names[k]]
                      ELSE event.command[1].parameter]]

\* Whether orbit, scale or track reach their "assert False": none of their optional
\* arguments is given.  (orbit returns before it when the controller is locked.)
AssertsFalse(locked, call_made) ==
    /\ call_made.method \in {"orbit", "scale", "track"}
    /\ ~(call_made.method = "orbit" /\ locked)
    /\ \A k \in 1..Len(call_made.names) :
          call_made.names[k] \in {"cursor_delta", "scroll", "direction"}
              => call_made.args[k] = None

\* The methods of CameraController decorated with @controller.command.
CommandHandlers ==
    {"fit", "lock_toggle", "normal_to", "orbit", "orbit_toggle", "projection_toggle",
     "roll", "scale", "track", "view"}

\* The other attributes of a CameraController: undecorated methods and fields.
OtherAttributes ==
    {"cast_ray", "update_output_size", "_dolly_will_clip", "_scale_to_cursor", "command",
     "scene", "camera", "target", "orbit_type", "is_locked"}

\* A controller that takes every attribute for a command handler.
HasHandlerForAnyAttribute(method) == method \in CommandHandlers \cup OtherAttributes

\* Controller.command: whether getattr(self, method, None) is a command handler,
\* i.e. an attribute that carries the mark the @command decorator sets.
HasHandler(method) == method \in CommandHandlers

\* Events with a command route that names no command handler of the controller.
RoutedEvents ==
    {[InputEvent("KEY", Some("PRESS"), None, Some("f"), Some(""), None, None, None)
        EXCEPT !.command = Some([controller |-> "camera", method |-> m, parameter |-> q])] :
        m \in {"cast_ray", "update_output_size", "is_locked", "camera", "no_such_command"},
        q \in {None, Some("in")}}

\* Controller.command(event) up to the entry of the handler: the handler found for
\* the event's command and the arguments it receives, or ControllerError when the
\* controller has no handler of that name.  What the handler then does to the camera
\* is the subject of the actions of Spec.
Command(event) ==
    /\ IF HasHandler(event.command[1].method)
       THEN InvokeWith([op |-> "command", mode |-> event.event_type, arg |-> <<event>>,
                        cam |-> <<>>],
                       IF AssertsFalse(is_locked, Unpacked(event)) THEN "AssertionError"
                       ELSE "None",
                       Unpacked(event))
       ELSE InvokeWith([op |-> "command", mode |-> event.event_type, arg |-> <<event>>,
                        cam |-> <<>>],
                       "ControllerError", NoObject)
    /\ UNCHANGED <<camera_to_world, projection, target, orbit_type, is_locked>>

\* The events the window and the scene viewport pass to CameraController.command.
DeliveredEvents ==
    {e[1] : e \in {Emit(raw) : raw \in InputEvents} \ {None}}

-----------------------------------------------------------------------------
(* window/layouts/grid.py.  A specification of rows or columns is <<"int", n>> *)
(* or <<"tuple", sizes>>, the sizes being fractions.                           *)

\* sum(specification)
RECURSIVE SumOf(_)
SumOf(sizes) == IF sizes = <<>> THEN Zero ELSE RAdd(sizes[1], SumOf(Tail(sizes)))

\* math.isclose(a, b): |a - b| <= 1e-9 * max(|a|, |b|).  A difference above a
\* thousandth of the larger magnitude is settled without the multiplication by 1e9.
IsClose(a, b) ==
    LET diff == RMax(RSub(a, b), RSub(b, a))
        larger == RMax(RMax(a, RNeg(a)), RMax(b, RNeg(b)))
    IN  /\ RLe(RMul(I(1000), diff), larger)
        /\ RLe(RMul(I(1000000000), diff), larger)

\* Grid._parse_specification(specification): the sizes of the cells, or LayoutError.
ParseSpecification(specification) ==
    IF specification[1] = "int"
    THEN IF specification[2] <= 0 THEN [raised |-> "LayoutError", value |-> <<>>]
         ELSE [raised |-> "None",
               value |-> [k \in 1..specification[2] |-> Q(1, specification[2])]]
    ELSE IF ~IsClose(SumOf(specification[2]), One)
         THEN [raised |-> "LayoutError", value |-> <<>>]
    ELSE IF \E k \in 1..Len(specification[2]) : IsClose(specification[2][k], Zero)
         THEN [raised |-> "LayoutError", value |-> <<>>]
    ELSE IF \E k \in 1..Len(specification[2]) : RLt(specification[2][k], Zero)
         THEN [raised |-> "LayoutError", value |-> <<>>]
    ELSE [raised |-> "None", value |-> specification[2]]

\* Grid.__init__ without the comparison of the number of viewports with the cells.
GridOfAnyCount(num_viewports, rows, columns) ==
    IF rows.raised # "None" \/ columns.raised # "None"
    THEN [raised |-> "LayoutError", value |-> NoObject]
    ELSE [raised |-> "None",
          value |-> [kind |-> "grid", viewports |-> num_viewports,
                     row_heights |-> rows.value, column_widths |-> columns.value,
                     num_cells |-> Len(rows.value) * Len(columns.value),
                     focused |-> num_viewports - Len(rows.value) + 1]]

\* The grid Grid.__init__ builds from parsed rows and columns for a list of
\* num_viewports viewports; focused is the place in the list (from 1) of
\* self._viewports[-len(self.row_heights)].
GridOf(num_viewports, rows, columns) ==
    IF rows.raised # "None" \/ columns.raised # "None"
    THEN [raised |-> "LayoutError", value |-> NoObject]
    ELSE IF num_viewports # Len(rows.value) * Len(columns.value)
    THEN [raised |-> "LayoutError", value |-> NoObject]
    ELSE [raised |-> "None",
          value |-> [kind |-> "grid", viewports |-> num_viewports,
                     row_heights |-> rows.value, column_widths |-> columns.value,
                     num_cells |-> Len(rows.value) * Len(columns.value),
                     focused |-> num_viewports - Len(rows.value) + 1]]

\* Grid(viewports, rows=1, columns=1)
NewGrid(num_viewports, rows, columns) ==
    GridOf(num_viewports,
           ParseSpecification(IF rows = None THEN <<"int", 1>> ELSE rows[1]),
           ParseSpecification(IF columns = None THEN <<"int", 1>> ELSE columns[1]))

\* Arguments (number of viewports, rows, columns) of the Grid constructor.
GridArguments ==
    { <<1, None, None>>, <<2, None, Some(<<"int", 2>>)>>, <<4, Some(<<"int", 2>>), Some(<<"int", 2>>)>>,
      <<6, Some(<<"int", 2>>), Some(<<"int", 3>>)>>,
      <<6, Some(<<"tuple", <<<<1, 2>>, <<1, 2>>>>>>),
           Some(<<"tuple", <<<<1, 3>>, <<1, 3>>, <<1, 3>>>>>>)>>,
      <<2, Some(<<"tuple", <<<<3, 5>>, <<2, 5>>>>>>), None>>,
      <<0, Some(<<"int", 2>>), Some(<<"int", 2>>)>>, <<3, Some(<<"int", 2>>), Some(<<"int", 2>>)>>,
      <<0, Some(<<"int", -2>>), Some(<<"int", 2>>)>>, <<0, Some(<<"int", 2>>), Some(<<"int", -2>>)>>,
      <<0, Some(<<"int", 0>>), Some(<<"int", 2>>)>>,
      <<4, Some(<<"int", 2>>), Some(<<"tuple", <<<<0, 1>>, <<1, 1>>>>>>)>>,
      <<4, Some(<<"int", 2>>), Some(<<"tuple", <<<<-1, 2>>, <<3, 2>>>>>>)>>,
      <<4, Some(<<"int", 2>>), Some(<<"tuple", <<<<1, 10>>, <<1, 10>>>>>>)>>,
      <<4, Some(<<"tuple", <<<<0, 1>>, <<1, 1>>>>>>), Some(<<"int", 2>>)>>,
      <<4, Some(<<"tuple", <<<<-1, 2>>, <<3, 2>>>>>>), Some(<<"int", 2>>)>>,
      <<4, Some(<<"tuple", <<<<1, 10>>, <<1, 10>>>>>>), Some(<<"int", 2>>)>> }

\* The call Grid(...); the controller is left alone.
ConstructGrid(a) ==
    /\ \E r \in {NewGrid(a[1], a[2], a[3])} :
        InvokeWith([op |-> "Grid", mode |-> "", arg |-> a, cam |-> <<>>],
                   r.raised, r.value)
    /\ UNCHANGED <<camera_to_world, projection, target, orbit_type, is_locked>>

\* int(x) of a float x, which truncates towards zero.
IntOf(x) == IF x[1] >= 0 THEN x[1] \div x[2] ELSE -((-x[1]) \div x[2])

\* itertools.accumulate(sizes, initial=0.0): entry k is the sum of the k-1 sizes before it.
Accumulate(sizes) == [k \in 1..(Len(sizes) + 1) |-> SumOf(SubSeq(sizes, 1, k - 1))]

\* The grids of GridArguments that the constructor accepts.
Grids == {NewGrid(a[1], a[2], a[3]).value : a \in {b \in GridArguments : NewGrid(b[1], b[2], b[3]).raised = "None"}}

\* Window sizes in pixels handed to Grid.resize.
WindowSizes == {<<100, 200>>, <<1, 1>>, <<3, 5>>, <<200, 100>>}

\* A viewport that has not been reflowed yet: Viewport.__init__ sets both fields to None.
NewViewport == [position |-> None, size |-> None]

\* The arguments Grid.resize passes to reflow, in the order of the calls: the rows
\* are the outer loop and the columns the inner loop.
ReflowArguments(grid, size) ==
    LET row_positions == Accumulate(grid.row_heights)
        column_positions == Accumulate(grid.column_widths)
        columns == Len(grid.column_widths)
    IN  [k \in 1..(Len(grid.row_heights) * columns) |->
            LET r == ((k - 1) \div columns) + 1
                c == ((k - 1) % columns) + 1
            IN  [position |-> <<IntOf(RMul(column_positions[c], I(size[1]))),
                                IntOf(RMul(row_positions[r], I(size[2])))>>,
                 size |-> <<IntOf(RMul(grid.column_widths[c], I(size[1]))),
                            IntOf(RMul(grid.row_heights[r], I(size[2])))>>]]

\* The assertion of Viewport.reflow(position, size).
ReflowAccepts(position, size) ==
    position[1] >= 0 /\ position[2] >= 0 /\ size[1] > 0 /\ size[2] > 0

\* Grid.resize(size): reflow is called on one viewport after the other, and the first
\* assertion that fails ends the resize.  calls are the reflow calls made, viewports
\* the viewports' fields afterwards.
Resize(grid, size) ==
    LET cells == ReflowArguments(grid, size)
        refused == {k \in 1..Len(cells) : ~ReflowAccepts(cells[k].position, cells[k].size)}
        made == IF refused = {} THEN Len(cells)
                ELSE CHOOSE k \in refused : \A j \in refused : k <= j
    IN  [raised |-> IF refused = {} THEN "None" ELSE "AssertionError",
         value |-> [kind |-> "resized", grid |-> grid, size |-> size,
                    calls |-> SubSeq(cells, 1, made),
                    viewports |-> [k \in 1..Len(cells) |->
                        IF k <= made /\ k \notin refused THEN cells[k] ELSE NewViewport]]]

\* The call Grid(...).resize(size) on a grid whose viewports are new.
GridResize(grid, size) ==
    /\ \E r \in {Resize(grid, size)} :
        InvokeWith([op |-> "Grid.resize", mode |-> "", arg |-> size, cam |-> <<>>],
                   r.raised, r.value)
    /\ UNCHANGED <<camera_to_world, projection, target, orbit_type, is_locked>>

\* Viewports after a reflow: position and size in pixels.
Viewports ==
    { [position |-> <<100, 100>>, size |-> <<100, 100>>],
      [position |-> <<0, 0>>, size |-> <<50, 100>>],
      [position |-> <<50, 0>>, size |-> <<3, 5>>] }

\* Cursor positions in pixels around a viewport: its corner pixels, a pixel in the
\* middle and pixels outside.
CursorPositions(viewport) ==
    { <<viewport.position[1] + dx, viewport.position[2] + dy>> :
        dx \in {0, (viewport.size[1] - 1) \div 2, viewport.size[1] - 1, viewport.size[1]},
        dy \in {0, (viewport.size[2] - 1) \div 2, viewport.size[2] - 1, viewport.size[2]} }

\* round(vector, 0) of a vector of whole pixels.
RoundPixels(v) == v

\* Viewport.ndc(cursor_position)
Ndc(viewport, cursor_position) ==
    LET rounded == RoundPixels(viewport.size)
        viewport_position ==
            <<cursor_position[1] - viewport.position[1] + rounded[1],
              cursor_position[2] - viewport.position[2] + rounded[2]>>
    IN  V3(RSub(Q(2 * viewport_position[1], viewport.size[1]), One),
           RSub(One, Q(2 * viewport_position[2], viewport.size[2])),
           Zero)

\* The call viewport.ndc(cursor_position) on a reflowed viewport.
ViewportNdc(viewport, cursor_position) ==
    /\ \E r \in {Ndc(viewport, cursor_position)} :
        InvokeWith([op |-> "Viewport.ndc", mode |-> "", arg |-> cursor_position, cam |-> <<>>],
                   "None",
                   [kind |-> "ndc", viewport |-> viewport,
                    cursor_position |-> cursor_position, value |-> r])
    /\ UNCHANGED <<camera_to_world, projection, target, orbit_type, is_locked>>

\* The grids after a resize to 100 x 200 pixels, which reflows every viewport.
ResizedGrids ==
    {r.value : r \in {q \in {Resize(grid, <<100, 200>>) : grid \in Grids} :
                        q.raised = "None"}}

\* Events handed to Grid.on_event: what InputHandler emits for clicks, cursor
\* movements, drags, keys and scrolls at cursor positions inside and outside the window.
GridEvents ==
    {Emit(e)[1] : e \in
        {InputEvent("CLICK", Some("PRESS"), Some("button_left"), None, Some(""), Some(p),
                    None, None) : p \in {<<0, 0>>, <<60, 150>>, <<99, 99>>, <<500, 500>>}}
        \cup {InputEvent(IF b = None THEN "CURSOR" ELSE "DRAG", None, b, None, Some(""),
                         Some(<<60, 150>>), Some(<<1, -1>>), None) :
                b \in {None, Some("button_middle")}}
        \cup {InputEvent("KEY", Some("PRESS"), None, Some("f"), Some(""), None, None, None),
              InputEvent("SCROLL", None, None, None, Some(""), Some(<<0, 0>>), None,
                         Some(<<0, -1>>))}}

\* cursor_position in viewport: Viewport defines none of __contains__, __iter__ and
\* __getitem__, so the membership test raises TypeError.
ViewportContains(viewport, cursor_position) == "TypeError"

\* Grid.on_event(event) on a grid with the given viewports and focused viewport (a
\* place in the list, from 1): the focused viewport afterwards and the viewports
\* whose event method was called.
OnEvent(viewports, focused, event) ==
    LET tested == [k \in 1..Len(viewports) |->
                      ViewportContains(viewports[k], event.cursor_position)]
        stops == {k \in 1..Len(viewports) : tested[k] # "False"}
        first == CHOOSE k \in stops : \A j \in stops : k <= j
    IN  IF event.event_type = "CLICK" /\ stops # {} /\ tested[first] = "TypeError"
        THEN [raised |-> "TypeError", focused |-> focused, delivered |-> <<>>]
        ELSE IF event.event_type = "CLICK" /\ stops # {}
        THEN [raised |-> "None", focused |-> first, delivered |-> <<first>>]
        ELSE [raised |-> "None", focused |-> focused, delivered |-> <<focused>>]

\* The call grid.on_event(event) on a resized grid whose focus is the one the
\* constructor chose.
GridOnEvent(resized, event) ==
    /\ \E r \in {OnEvent(resized.viewports, resized.grid.focused, event)} :
        InvokeWith([op |-> "Grid.on_event", mode |-> event.event_type, arg |-> <<event>>,
                    cam |-> <<>>],
                   r.raised,
                   [kind |-> "on_event", viewports |-> resized.viewports,
                    focused_before |-> resized.grid.focused, event |-> event,
                    focused |-> r.focused, delivered |-> r.delivered])
    /\ UNCHANGED <<camera_to_world, projection, target, orbit_type, is_locked>>

NextApi ==
    \/ \E a \in OrthoArguments : ConstructOrtho(a)
    \/ \E a \in PerspectiveArguments : ConstructPerspective(a)
    \/ \E a \in CameraArguments : ConstructCamera(a)
    \/ \E a \in LookAtArguments : LookAt(a)
    \/ \E a \in GridArguments : ConstructGrid(a)
    \/ \E event \in {e \in DeliveredEvents : Delivered(e)} \cup RoutedEvents : Command(event)

\* The calls are made beside a controller that has just been constructed.
InitApi == Init /\ pre = Constructed

SpecApi == InitApi /\ [][NextApi]_vars

\* The calls on the layout of a window: resizes of grids, events handed to resized
\* grids and the conversion of cursor positions by reflowed viewports.
NextLayout ==
    \/ \E grid \in Grids, size \in WindowSizes : GridResize(grid, size)
    \/ \E viewport \in Viewports : \E cursor_position \in CursorPositions(viewport) :
        ViewportNdc(viewport, cursor_position)
    \/ \E resized \in ResizedGrids, event \in GridEvents : GridOnEvent(resized, event)

SpecLayout == InitApi /\ [][NextLayout]_vars

-----------------------------------------------------------------------------
(* window/input_handler.py: the GLFW callbacks of InputHandler.               *)

\* Number of GLFW callbacks in one run.
MaxCallbacks == 4

\* The name the bindings give a GLFW mouse button id: 0 is the left button, 1 the
\* right and 2 the middle one.
ButtonName(button) ==
    CASE button = 0 -> "button_left" [] button = 1 -> "button_right"
      [] OTHER -> "button_middle"

\* utils.sign(value)
Sign(value) == IF value < 0 THEN -1 ELSE IF value > 0 THEN 1 ELSE 0

\* InputEvent.Movement(button, cursor_position, cursor_delta, modifiers): a drag
\* when button is not None (the id 0 included), else a cursor event.
Movement(button, cursor_position, cursor_delta, modifiers) ==
    InputEvent(IF button # None THEN "DRAG" ELSE "CURSOR", None,
               IF button = None THEN None ELSE Some(ButtonName(button[1])), None,
               Some(modifiers), Some(cursor_position), Some(cursor_delta), None)

\* InputEvent.Resize(width, height)
ResizeEvent(width, height) ==
    [InputEvent("RESIZE", None, None, None, None, None, None, None)
        EXCEPT !.size = Some(<<width, height>>)]

\* What the event callback receives while InputHandler._emit(event) runs: the event
\* itself, at once, or nothing.
Received(event) == IF Emit(event) = None THEN <<>> ELSE <<Emit(event)[1]>>

\* The bookkeeping of one GLFW callback that leaves the handler as h and the
\* window as w; obj keeps the handler as the callback found it.
Callback(c, h, w) ==
    /\ nops' = nops + 1
    /\ pre' = Snapshot
    /\ call' = c
    /\ ret' = "None"
    /\ obj' = [kind |-> "input_handler", handler |-> handler]
    /\ handler' = h
    /\ window' = w
    /\ UNCHANGED <<camera_to_world, projection, target, orbit_type, is_locked>>

\* InputHandler._cursor_pos(window, x_position, y_position)
CursorPos(x_position, y_position) ==
    /\ nops < MaxCallbacks
    /\ \E cursor_delta \in
            {IF handler.last_cursor_position = None THEN <<0, 0>>
             ELSE <<x_position - handler.last_cursor_position[1][1],
                    y_position - handler.last_cursor_position[1][2]>>} :
        Callback([op |-> "cursor_pos", mode |-> "", arg |-> <<x_position, y_position>>,
                  cam |-> <<>>],
                 [handler EXCEPT !.last_cursor_position = Some(<<x_position, y_position>>)],
                 [window EXCEPT !.cursor = <<x_position, y_position>>,
                                !.received =
                                    Received(Movement(handler.current_button_down,
                                                      <<x_position, y_position>>,
                                                      cursor_delta,
                                                      handler.current_key_modifiers))])

\* InputHandler._key(window, key, scancode, action, modifiers)
Key(key, action, modifiers) ==
    /\ nops < MaxCallbacks
    /\ Callback([op |-> "key", mode |-> action, arg |-> <<key, modifiers>>, cam |-> <<>>],
                [handler EXCEPT !.current_key_modifiers = modifiers],
                [window EXCEPT !.received =
                    Received(InputEvent("KEY", Some(action), None, Some(key),
                                        Some(modifiers), None, None, None))])

\* InputHandler._mouse_button(window, button, action, modifiers).  GLFW reports the
\* press of a button that is up and the release of a button that is down.
MouseButton(button, action, modifiers) ==
    /\ nops < MaxCallbacks
    /\ action = "PRESS" => button \notin window.buttons_down
    /\ action = "RELEASE" => button \in window.buttons_down
    /\ Callback([op |-> "mouse_button", mode |-> action, arg |-> <<button, modifiers>>,
                 cam |-> <<>>],
                [handler EXCEPT !.current_button_down =
                    IF action = "PRESS" THEN Some(button) ELSE None],
                [window EXCEPT !.buttons_down =
                                    IF action = "PRESS" THEN window.buttons_down \cup {button}
                                    ELSE window.buttons_down \ {button},
                               !.received =
                                    Received(InputEvent("CLICK", Some(action),
                                                        Some(ButtonName(button)), None,
                                                        Some(modifiers), Some(window.cursor),
                                                        None, None))])

\* InputHandler._scroll(window, x_direction, y_direction) of a scroll that moves.
Scroll(x_direction, y_direction) ==
    /\ nops < MaxCallbacks
    /\ x_direction # 0 \/ y_direction # 0
    /\ Callback([op |-> "scroll", mode |-> "", arg |-> <<x_direction, y_direction>>,
                 cam |-> <<>>],
                handler,
                [window EXCEPT !.received =
                    Received(InputEvent("SCROLL", None, None, None,
                                        Some(handler.current_key_modifiers),
                                        Some(window.cursor), None,
                                        Some(<<Sign(x_direction), Sign(y_direction)>>)))])

\* InputHandler._window_size(window, width, height)
WindowSize(width, height) ==
    /\ nops < MaxCallbacks
    /\ Callback([op |-> "window_size", mode |-> "", arg |-> <<width, height>>,
                 cam |-> <<>>],
                handler,
                [window EXCEPT !.received = Received(ResizeEvent(width, height))])

\* The raw input GLFW reports: cursor positions, keys, mouse button ids, scroll
\* offsets and window sizes.
RawPositions == {<<0, 0>>, <<3, 5>>}
RawKeys == {"f"}
RawModifiers == {"", "shift"}
RawButtons == {0, 1}
RawScrolls == {<<0, -3>>, <<2, 0>>}

NextInput ==
    \/ \E p \in RawPositions : CursorPos(p[1], p[2])
    \/ \E key \in RawKeys, action \in {"PRESS", "RELEASE", "REPEAT"}, m \in RawModifiers :
        Key(key, action, m)
    \/ \E button \in RawButtons, action \in {"PRESS", "RELEASE"} :
        MouseButton(button, action, "")
    \/ \E v \in RawScrolls : Scroll(v[1], v[2])
    \/ \E size \in WindowSizes : WindowSize(size[1], size[2])

SpecInput == InitApi /\ [][NextInput]_vars

-----------------------------------------------------------------------------
(* The claims. "pre" is the controller before the last call, "call" the last  *)
(* call and "ret" what it returned.                                            *)

\* Column j of a pose's rotation as a rational vector: the camera's j-th axis in
\* world space.
CameraAxis(c2w, j) == VI(c2w.rot[1][j], c2w.rot[2][j], c2w.rot[3][j])

\* Whether the last call left the whole controller as it was.
NothingChanged ==
    /\ camera_to_world = pre.camera_to_world
    /\ projection = pre.projection
    /\ target = pre.target
    /\ orbit_type = pre.orbit_type
    /\ is_locked = pre.is_locked

\* C1: when is_locked is true, orbit, roll and view return without changing the
\* pose, the projection, the target, the orbit type or the lock flag.
C1_LockedCommandsAreNoOps ==
    (call.op \in {"orbit", "roll", "view"} /\ pre.is_locked)
        => (ret = "None" /\ NothingChanged)

\* A locked controller was asked for a view that would have moved the camera.
C1_Witness ==
    /\ call.op = "view"
    /\ pre.is_locked
    /\ ViewFrom(pre.camera_to_world, pre.projection, ViewPosition(ViewValue(call.mode)),
                ViewUp(call.mode)).camera_to_world # pre.camera_to_world

\* Whether a dolly by d clips, as the claim words it: d > 0 and d minus the smallest
\* camera-space z of the corners of the scene's bounds is greater than far_clip.
C2_Clips(c2w, p, d) ==
    LET pts == ApplyCorners(WorldToCamera(c2w))
    IN  /\ RLt(Zero, d)
        /\ \E k \in 1..8 :
              /\ \A j \in 1..8 : RLe(pts[k][3], pts[j][3])
              /\ RLt(p.far_clip, RSub(d, pts[k][3]))

\* C2: in perspective mode, a scale by a named direction or a cursor delta whose
\* dolly amount d clips returns False and leaves the pose and the projection
\* unchanged; any other moves the camera by exactly d along its own z axis.
C2_ScaleRefusesClippingDolly ==
    (call.op = "scale" /\ call.mode \in {"direction", "cursor"}
        /\ pre.projection.kind = "persp")
    => IF C2_Clips(pre.camera_to_world, pre.projection, call.cam[1])
       THEN /\ ret = "False"
            /\ camera_to_world = pre.camera_to_world
            /\ projection = pre.projection
       ELSE /\ camera_to_world.rot = pre.camera_to_world.rot
            /\ Position(camera_to_world) =
                  VAdd(Position(pre.camera_to_world),
                       VScale(call.cam[1], CameraAxis(pre.camera_to_world, 3)))
            /\ projection = pre.projection

\* A perspective scale outward was refused.
C2_Witness ==
    /\ call.op = "scale" /\ call.mode = "cursor"
    /\ pre.projection.kind = "persp"
    /\ RLt(Zero, call.cam[1])
    /\ ret = "False"

ValidProjection(p) ==
    /\ RLt(Zero, p.aspect)
    /\ RLt(Zero, p.near_clip) /\ RLt(p.near_clip, p.far_clip)
    /\ IF p.kind = "ortho" THEN RLt(Zero, p.width) ELSE RLt(Zero, p.vertical_fov)

\* C4: for every valid parameter set, of either variant, the product of the
\* matrices returned by matrix and inverse is the identity matrix.
C4_MatrixTimesInverseIsIdentity ==
    ValidProjection(projection)
        => Mat4Mul(ProjMatrix(projection), ProjInverse(projection)) = Mat4Identity

\* C5: Camera.orbit leaves the distance between the camera position and the target
\* as it was (stated on the square of the distance).
C5_OrbitKeepsDistance ==
    (call.op = "orbit" /\ ~pre.is_locked)
        => VLenSq(VSub(Position(camera_to_world), pre.target)) =
               VLenSq(VSub(Position(pre.camera_to_world), pre.target))

\* An orbit about a target away from the origin moved the camera.
C5_Witness ==
    /\ call.op = "orbit" /\ ~pre.is_locked
    /\ pre.target # VZero
    /\ Position(camera_to_world) # Position(pre.camera_to_world)

\* C6, as claimed: with both angles non-zero, Camera.orbit moves the target to the
\* origin, applies the yaw rotation, then the pitch rotation, and moves back.
C6_YawBeforePitch ==
    (call.op = "orbit" /\ ~pre.is_locked /\ call.cam[1] # Zero /\ call.cam[2] # Zero)
        => camera_to_world =
               CameraOrbitYawFirst(pre.camera_to_world, pre.target, call.cam[1][1],
                                   call.cam[2][1], pre.orbit_type)

\* The pose after the pitch step and then the yaw step about the target tgt, in
\* closed form.  The pitch is a turn about the camera's own x axis (R * Rx); the yaw
\* that follows is a turn about the pitched camera's own y axis (R * Rx * Ry, FREE)
\* or about the world's z axis (Rz * R * Rx, CONSTRAINED); the position turns about
\* the target by the same world rotation.
C6_PitchThenYaw(c2w, tgt, pitch, yaw, orbitType) ==
    LET pitched == RotMul(c2w.rot, AxisAngleRot(AxisX, pitch))
        rot == IF orbitType = "FREE"
               THEN RotMul(pitched, AxisAngleRot(AxisY, yaw))
               ELSE RotMul(AxisAngleRot(AxisZ, yaw), pitched)
        turn == RotMul(rot, RotTranspose(c2w.rot))
    IN  Transform(rot, VAdd(tgt, RotApply(turn, VSub(Position(c2w), tgt))))

\* C6, amended: with both angles non-zero, Camera.orbit moves the target to the
\* origin, applies the pitch rotation, then the yaw rotation, and moves back.
C6_PitchBeforeYaw ==
    (call.op = "orbit" /\ ~pre.is_locked /\ call.cam[1] # Zero /\ call.cam[2] # Zero)
        => camera_to_world =
               C6_PitchThenYaw(pre.camera_to_world, pre.target, call.cam[1][1],
                               call.cam[2][1], pre.orbit_type)

\* A free orbit with both angles non-zero for which the two orders differ.
C6_Witness ==
    /\ call.op = "orbit" /\ ~pre.is_locked
    /\ call.cam[1] # Zero /\ call.cam[2] # Zero
    /\ pre.orbit_type = "FREE"
    /\ camera_to_world #
           CameraOrbitYawFirst(pre.camera_to_world, pre.target, call.cam[1][1],
                               call.cam[2][1], pre.orbit_type)

\* C7: Camera.roll leaves the camera position as it was, and roll(a) followed by
\* roll(-a) restores the orientation.
C7_RollKeepsPositionAndInverts ==
    [][(call'.op = "roll" /\ ~is_locked)
        => /\ Position(camera_to_world') = Position(camera_to_world)
           /\ (call.op = "roll" /\ ~pre.is_locked /\ call'.cam[1] = RNeg(call.cam[1]))
                 => camera_to_world'.rot = pre.camera_to_world.rot]_vars

\* A roll by a non-zero angle followed by the opposite roll.
C7_Witness ==
    /\ call.op = "roll" /\ pre.call.op = "roll" /\ ~pre.is_locked
    /\ call.cam[1] # Zero /\ call.cam[1] = RNeg(pre.call.cam[1])
    /\ camera_to_world.rot # pre.camera_to_world.rot

\* C8: Camera.track(x, y) moves the position by the camera-space vector (x, y, 0)
\* mapped into world space and leaves the orientation as it was; track(x, y)
\* followed by track(-x, -y) restores the pose.
C8_TrackMovesInCameraPlane ==
    [][call'.op = "track"
        => /\ camera_to_world'.rot = camera_to_world.rot
           /\ Position(camera_to_world') =
                 VAdd(Position(camera_to_world),
                      VAdd(VScale(call'.cam[1], CameraAxis(camera_to_world, 1)),
                           VScale(call'.cam[2], CameraAxis(camera_to_world, 2))))
           /\ (call.op = "track" /\ call'.cam = <<RNeg(call.cam[1]), RNeg(call.cam[2])>>)
                 => camera_to_world' = pre.camera_to_world]_vars

\* A track of a turned camera followed by the opposite track.
C8_Witness ==
    /\ call.op = "track" /\ pre.call.op = "track"
    /\ call.cam # <<Zero, Zero>>
    /\ call.cam = <<RNeg(pre.call.cam[1]), RNeg(pre.call.cam[2])>>
    /\ camera_to_world.rot # IdentityRot

\* C9: after OrthoProjection.zoom(amount) the width is at least WIDTH_MIN: it is
\* width + amount when that is at least WIDTH_MIN, and WIDTH_MIN otherwise.
C9_ZoomKeepsMinimumWidth ==
    (call.op = "scale" /\ pre.projection.kind = "ortho" /\ ret # "raise")
        => /\ RLe(WIDTH_MIN, projection.width)
           /\ projection.width =
                 IF RLe(WIDTH_MIN, RAdd(pre.projection.width, call.cam[1]))
                 THEN RAdd(pre.projection.width, call.cam[1])
                 ELSE WIDTH_MIN

\* A zoom by more than the width has.
C9_Witness ==
    /\ call.op = "scale" /\ pre.projection.kind = "ortho" /\ ret # "raise"
    /\ RLt(RAdd(pre.projection.width, call.cam[1]), Zero)
    /\ projection.width = WIDTH_MIN

\* C10: a second resize(w, h) with the same w and h changes nothing of the
\* projection (its aspect and, when orthographic, its width).
C10_ResizeIsIdempotent ==
    [][(call.op = "update_output_size" /\ call'.op = "update_output_size"
            /\ call'.arg = call.arg)
        => projection' = projection]_vars

\* An orthographic projection resized twice to a size that changed its aspect.
C10_Witness ==
    /\ call.op = "update_output_size" /\ pre.call.op = "update_output_size"
    /\ call.arg = pre.call.arg
    /\ projection.kind = "ortho"
    /\ projection.aspect # DefaultAspect

\* An argument that was passed and is zero or negative.
NonPositive(a) == a # None /\ RLe(a[1], Zero)

\* C11: constructing a projection with a non-positive aspect, near clip or far clip
\* (either variant) or a non-positive width (OrthoProjection) raises, and no projection
\* object is produced.
C11_NonPositiveArgumentsAreRejected ==
    /\ call.op = "OrthoProjection" /\ (\E k \in 1..4 : NonPositive(call.arg[k]))
        => ret # "None" /\ obj = NoObject
    /\ call.op = "PerspectiveProjection" /\ (\E k \in 1..3 : NonPositive(call.arg[k]))
        => ret # "None" /\ obj = NoObject

\* The up direction a look_at call used: Z when none was passed.
UpOf(c) == IF c.arg[3] = None THEN <<0, 0, 1>> ELSE c.arg[3][1]

\* The up direction of the call is a non-zero multiple of position - target.
UpAlongView(c) ==
    \E k \in {-5, -3, -1, 1, 3, 5} :
        VSub(c.arg[1], c.arg[2]) = VScale(I(k), VI(UpOf(c)[1], UpOf(c)[2], UpOf(c)[3]))

\* C12: look_at with up parallel or anti-parallel to the direction from target to
\* position raises CameraError and leaves the camera pose exactly as it was.
C12_DegenerateLookAtRaisesAndKeepsPose ==
    call.op = "look_at" /\ UpAlongView(call)
        => ret = "CameraError" /\ camera_to_world = pre.camera_to_world

\* A degenerate look_at on a camera an earlier look_at had moved off its first pose.
C12_Witness ==
    /\ call.op = "look_at" /\ UpAlongView(call) /\ ret = "CameraError"
    /\ pre.call.op = "look_at"
    /\ camera_to_world.trans # VZero
    /\ camera_to_world.rot # IdentityRot

\* A point of space: three coordinates, each a fraction with a positive denominator.
IsPoint(v) ==
    /\ DOMAIN v = 1..3
    /\ \A k \in 1..3 : DOMAIN v[k] = 1..2 /\ v[k][2] > 0

\* The point at distance s in front of a camera of pose c2w, on its view axis.
AlongView(c2w, s) == VSub(c2w.trans, VScale(s, VI(c2w.rot[1][3], c2w.rot[2][3], c2w.rot[3][3])))

\* C13: the target is a point in every state: the origin at construction and, after a
\* click (here at the centre of the viewport), the point of the pick ray at the hit
\* when the pick hits, else the centre of the scene's bounds when the scene has
\* entities, else the origin.
C13_TargetIsAlwaysAPoint ==
    /\ IsPoint(target)
    /\ nops = 0 => target = VZero
    /\ call.op = "click" /\ call.mode = "hit" =>
        target = AlongView(camera_to_world,
                           IF projection.kind = "persp" THEN I(call.arg[3])
                           ELSE RAdd(I(call.arg[3]), projection.near_clip))
    /\ call.op = "click" /\ call.mode = "miss" => target = VScale(<<1, 2>>, VAdd(AabbMin, AabbMax))
    /\ call.op = "click" /\ call.mode = "empty" => target = VZero

\* A pick that misses in an empty scene, after a pick that had moved the target.
C13_Witness ==
    /\ call.op = "click" /\ call.mode = "empty"
    /\ pre.call.op = "click" /\ pre.target # VZero
    /\ target = VZero

\* C14: orbit_toggle flips orbit_type between CONSTRAINED and FREE and lock_toggle flips
\* is_locked, each changing nothing else; no other command changes either flag; two
\* consecutive calls of the same toggle restore the state before the first.
C14_TogglesFlipOnlyTheirFlag ==
    [][ /\ call'.op = "orbit_toggle" =>
            /\ orbit_type' = (IF orbit_type = "FREE" THEN "CONSTRAINED" ELSE "FREE")
            /\ orbit_type \in {"FREE", "CONSTRAINED"}
            /\ UNCHANGED <<camera_to_world, projection, target, is_locked>>
        /\ call'.op = "lock_toggle" =>
            /\ is_locked' = ~is_locked
            /\ UNCHANGED <<camera_to_world, projection, target, orbit_type>>
        /\ call'.op \notin {"orbit_toggle", "lock_toggle"} =>
            UNCHANGED <<orbit_type, is_locked>>
        /\ call'.op = call.op /\ call.op \in {"orbit_toggle", "lock_toggle"} =>
            /\ camera_to_world' = pre.camera_to_world
            /\ projection' = pre.projection
            /\ target' = pre.target
            /\ orbit_type' = pre.orbit_type
            /\ is_locked' = pre.is_locked
      ]_vars

\* The free orbit was selected and the second orbit_toggle in a row selected the
\* constrained orbit again.
C14_Witness ==
    /\ call.op = "orbit_toggle" /\ pre.call.op = "orbit_toggle"
    /\ pre.orbit_type = "FREE" /\ orbit_type = "CONSTRAINED"

\* C15: scale returns whether the scale was applied, for a named direction, a scroll
\* and a cursor movement alike: True exactly when the call dollied the camera or
\* zoomed the orthographic width, False exactly when it left camera and projection
\* as they were.
C15_ScaleReturnsWhetherApplied ==
    call.op = "scale" /\ ret # "raise" =>
        /\ ret \in {"True", "False"}
        /\ ret = "True" <=>
            (camera_to_world # pre.camera_to_world \/ projection # pre.projection)

\* The input shapes (named direction, scroll, cursor delta) a call received as non-None.
ShapesGiven(c) ==
    {c.names[k] : k \in {j \in 1..Len(c.names) :
        c.names[j] \in {"cursor_delta", "scroll", "direction"} /\ c.args[j] # None}}

PresetDirection(view) ==
    CASE view = "BACK" -> <<0, -1, 0>> [] view = "BOTTOM" -> <<0, 0, 1>>
      [] view = "FRONT" -> <<0, 1, 0>> [] view = "ISOMETRIC" -> <<-1, 1, -1>>
      [] view = "LEFT" -> <<1, 0, 0>> [] view = "RIGHT" -> <<-1, 0, 0>>
      [] view = "TOP" -> <<0, 0, -1>>

\* C17: for every CameraView preset the up vector is Y when the direction is +Z, -Y
\* when it is -Z and Z otherwise, so that its cross product with the direction is
\* never zero; and no call of view raises the CameraError of a degenerate look_at.
C17_PresetUpIsNeverAlongTheView ==
    /\ \A k \in 1..Len(CameraViews) :
        LET d == PresetDirection(CameraViews[k])
            up == ViewUp(CameraViews[k])
        IN  /\ up = (IF d = <<0, 0, 1>> THEN <<0, 1, 0>>
                     ELSE IF d = <<0, 0, -1>> THEN <<0, -1, 0>> ELSE <<0, 0, 1>>)
            /\ <<up[2] * d[3] - up[3] * d[2], up[3] * d[1] - up[1] * d[3],
                 up[1] * d[2] - up[2] * d[1]>> # <<0, 0, 0>>
    /\ Len(CameraViews) = 7
    /\ call.op \in {"view", "normal_to"} => ret # "CameraError"

\* A view from the top on an unlocked controller turned the camera and returned.
C17_Witness ==
    /\ call.op = "view" /\ call.mode = "TOP" /\ ~pre.is_locked
    /\ ret = "None"
    /\ camera_to_world.rot # pre.camera_to_world.rot

\* C18: in every state reached by the controller's operations, an orthographic
\* projection of the camera has a width strictly greater than 0.
C18_OrthoWidthIsPositive ==
    projection.kind = "ortho" => RLt(Zero, projection.width)

\* C19: a Camera constructed with no arguments is at position (0, 0, 0) with the world
\* X, Y, Z axes as its basis, has a world_to_camera transform, and has a projection
\* that is an OrthoProjection.
C19_DefaultCameraIsOrthographicAtOrigin ==
    call.op = "Camera" /\ call.arg = <<None, None>> =>
        /\ ret = "None"
        /\ obj.kind = "camera"
        /\ Position(obj.camera_to_world) = VZero
        /\ obj.camera_to_world.rot = <<<<1, 0, 0>>, <<0, 1, 0>>, <<0, 0, 1>>>>
        /\ Compose(WorldToCamera(obj.camera_to_world), obj.camera_to_world) = IdentityTransform
        /\ obj.projection.kind = "ortho"

\* The rows or columns a Grid call asks for: one cell when the argument is omitted.
SpecificationOf(argument) == IF argument = None THEN <<"int", 1>> ELSE argument[1]

\* An integer that is zero or negative, or sizes that do not sum to 1 or have a zero
\* or negative entry.
InvalidSpecification(sp) ==
    IF sp[1] = "int" THEN sp[2] < 1
    ELSE \/ SumOf(sp[2]) # One
         \/ \E k \in 1..Len(sp[2]) : sp[2][k][1] <= 0

\* The number of cells a valid specification asks for.
CellsOf(sp) == IF sp[1] = "int" THEN sp[2] ELSE Len(sp[2])

\* C20: Grid construction raises LayoutError when an integer rows or columns value is
\* zero or negative, when a tuple does not sum to 1 or has a zero or negative entry, or
\* when the number of viewports differs from rows x columns; otherwise it succeeds
\* with num_cells = len(row_heights) * len(column_widths), a single cell by default.
C20_GridConstruction ==
    call.op = "Grid" =>
        IF \/ InvalidSpecification(SpecificationOf(call.arg[2]))
           \/ InvalidSpecification(SpecificationOf(call.arg[3]))
           \/ call.arg[1] # CellsOf(SpecificationOf(call.arg[2]))
                            * CellsOf(SpecificationOf(call.arg[3]))
        THEN ret = "LayoutError" /\ obj = NoObject
        ELSE /\ ret = "None"
             /\ Len(obj.row_heights) = CellsOf(SpecificationOf(call.arg[2]))
             /\ Len(obj.column_widths) = CellsOf(SpecificationOf(call.arg[3]))
             /\ obj.num_cells = Len(obj.row_heights) * Len(obj.column_widths)
             /\ call.arg[2] = None /\ call.arg[3] = None => obj.num_cells = 1

\* A grid of two rows of three columns was built after a construction was refused.
C20_Witness ==
    /\ call.op = "Grid" /\ ret = "None" /\ obj.num_cells = 6
    /\ Len(obj.row_heights) = 2 /\ Len(obj.column_widths) = 3
    /\ pre.call.op = "Grid" /\ InvalidSpecification(SpecificationOf(pre.call.arg[2]))

\* The whole pixels of a non-negative amount.
FloorOf(x) == x[1] \div x[2]

\* The cell the claims give the viewport of row r and column c (both from 0) of a
\* grid in a window of the given size.
CellOf(grid, size, r, c) ==
    [position |-> <<FloorOf(RMul(I(size[1]), SumOf(SubSeq(grid.column_widths, 1, c)))),
                    FloorOf(RMul(I(size[2]), SumOf(SubSeq(grid.row_heights, 1, r))))>>,
     size |-> <<FloorOf(RMul(I(size[1]), grid.column_widths[c + 1])),
                FloorOf(RMul(I(size[2]), grid.row_heights[r + 1]))>>]

\* C21: Grid.resize to a window of W x H pixels calls reflow exactly once on every
\* viewport, and the viewport at index r*columns + c receives the position
\* (floor(W * widths before c), floor(H * heights before r)) and the size
\* (floor(W * width of c), floor(H * height of r)).
C21_ResizeReflowsEveryViewport ==
    call.op = "Grid.resize" =>
        LET rows == Len(obj.grid.row_heights)
            columns == Len(obj.grid.column_widths)
        IN  /\ Len(obj.calls) = rows * columns
            /\ \A r \in 0..(rows - 1), c \in 0..(columns - 1) :
                /\ obj.calls[r * columns + c + 1] = CellOf(obj.grid, obj.size, r, c)
                /\ obj.viewports[r * columns + c + 1] = CellOf(obj.grid, obj.size, r, c)

\* C23: the viewport focused immediately after the construction of a grid of R rows
\* and C columns is the top-left cell, the viewport at index (R-1)*C of the list.
C23_FocusedIsTopLeft ==
    call.op = "Grid" /\ ret = "None" =>
        obj.focused - 1 = (Len(obj.row_heights) - 1) * Len(obj.column_widths)

\* C30: for every grid and every window of at least 1 x 1 pixel, Grid.resize passes
\* every viewport a size of at least 1 x 1 and a non-negative position, and no
\* assertion of Viewport.reflow fails.
C30_ResizeNeverFailsTheReflowAssertion ==
    call.op = "Grid.resize" /\ obj.size[1] >= 1 /\ obj.size[2] >= 1 =>
        /\ ret = "None"
        /\ \A k \in 1..Len(obj.calls) :
            /\ obj.calls[k].size[1] >= 1 /\ obj.calls[k].size[2] >= 1
            /\ obj.calls[k].position[1] >= 0 /\ obj.calls[k].position[2] >= 0

\* C22: Viewport.ndc maps the bottom-left corner pixel of the viewport to (-1, -1),
\* its top-right corner pixel to (1, 1) and the pixel midway to (0, 0), linearly in
\* between, and the third component is always 0.
C22_NdcIsLinearBetweenTheCorners ==
    call.op = "Viewport.ndc" =>
        LET across == obj.cursor_position[1] - obj.viewport.position[1]
            up == obj.cursor_position[2] - obj.viewport.position[2]
        IN  /\ obj.value[3] = Zero
            /\ obj.value[1] = RSub(Q(2 * across, obj.viewport.size[1] - 1), One)
            /\ obj.value[2] = RSub(Q(2 * up, obj.viewport.size[2] - 1), One)

\* Whether a pixel lies inside a reflowed viewport.
Inside(viewport, p) ==
    /\ viewport.position[1] <= p[1] /\ p[1] < viewport.position[1] + viewport.size[1]
    /\ viewport.position[2] <= p[2] /\ p[2] < viewport.position[2] + viewport.size[2]

\* C24: Grid.on_event delivers every event to exactly one viewport, the focused one;
\* the focus changes only on a CLICK whose cursor position lies inside some viewport,
\* it becomes that viewport before the click is delivered, and every other event (a
\* click inside no viewport included) leaves the focus as it was.
C24_EventsGoToTheFocusedViewport ==
    call.op = "Grid.on_event" =>
        LET clicked == {k \in 1..Len(obj.viewports) :
                            /\ obj.event.event_type = "CLICK"
                            /\ Inside(obj.viewports[k], obj.event.cursor_position[1])}
        IN  /\ obj.delivered = <<obj.focused>>
            /\ IF clicked = {} THEN obj.focused = obj.focused_before
               ELSE obj.focused \in clicked

\* C25: Controller.command(event) invokes a method only when event.command.method
\* names an attribute of the controller decorated with @command; for every other name
\* (no such attribute, or an undecorated one such as cast_ray or update_output_size)
\* it raises ControllerError, invokes nothing and leaves the controller as it was.
C25_OnlyCommandHandlersAreInvoked ==
    call.op = "command" =>
        LET method == call.arg[1].command[1].method
            decorated == {"fit", "lock_toggle", "normal_to", "orbit", "orbit_toggle",
                          "projection_toggle", "roll", "scale", "track", "view"}
        IN  IF method \in decorated
            THEN obj.kind = "call" /\ obj.method = method /\ ret # "ControllerError"
            ELSE /\ ret = "ControllerError" /\ obj = NoObject
                 /\ camera_to_world = pre.camera_to_world /\ projection = pre.projection
                 /\ target = pre.target /\ orbit_type = pre.orbit_type
                 /\ is_locked = pre.is_locked

\* An event routed to the undecorated method cast_ray was refused after a key bound
\* to a command had been passed on to its handler.
C25_Witness ==
    /\ call.op = "command" /\ call.arg[1].command[1].method = "cast_ray"
    /\ ret = "ControllerError"
    /\ pre.call.op = "command" /\ pre.call.arg[1].command[1].method \in CommandHandlers

\* The type of event a GLFW callback stands for.
EventTypeOf(op, held) ==
    CASE op = "key" -> "KEY" [] op = "mouse_button" -> "CLICK" [] op = "scroll" -> "SCROLL"
      [] op = "window_size" -> "RESIZE" [] op = "cursor_pos" -> IF held THEN "DRAG" ELSE "CURSOR"

C27_MovementIsADragWhileAButtonIsPressed ==
    call.op = "cursor_pos" =>
        /\ Len(window.received) = 1
        /\ window.received[1].event_type =
                IF window.buttons_down # {} THEN "DRAG" ELSE "CURSOR"
        /\ window.received[1].cursor_delta =
                Some(IF obj.handler.last_cursor_position = None THEN <<0, 0>>
                     ELSE <<call.arg[1] - obj.handler.last_cursor_position[1][1],
                            call.arg[2] - obj.handler.last_cursor_position[1][2]>>)

\* C28: while is_locked is true, no controller command (orbit, roll, view, normal_to,
\* track, scale, fit, projection_toggle, orbit_toggle) changes the rotation part of
\* the camera pose.
C28_LockKeepsTheOrientation ==
    /\ pre.is_locked
    /\ call.op \in {"orbit", "roll", "view", "normal_to", "track", "scale", "fit",
                    "projection_toggle", "orbit_toggle"}
    => camera_to_world.rot = pre.camera_to_world.rot

\* A roll was refused under the lock that the call before it had set on a camera
\* turned away from its initial orientation.
C28_Witness ==
    /\ pre.is_locked /\ is_locked /\ call.op = "roll" /\ pre.call.op = "lock_toggle"
    /\ camera_to_world = pre.camera_to_world
    /\ camera_to_world.rot # Constructed.camera_to_world.rot

\* The camera-space depth of the scene-bounds corner farthest from the camera.
FarthestDepth(c2w) == RNeg(BackOfScene(ApplyCorners(WorldToCamera(c2w))))

\* C29: with a perspective projection, if the farthest corner of the scene bounds is
\* at a camera-space depth of at most far_clip, it still is after a scale command
\* (named direction, cursor delta or scroll) or a track command.
C29_SceneStaysWithinTheFarClip ==
    /\ call.op \in {"scale", "track"} /\ pre.projection.kind = "persp"
    /\ RLe(FarthestDepth(pre.camera_to_world), pre.projection.far_clip)
    => RLe(FarthestDepth(camera_to_world), projection.far_clip)

\* An outward dolly that would have put the farthest corner beyond the far clipping
\* plane was refused, after an outward dolly had been applied.
C29_Witness ==
    /\ call.op = "scale" /\ projection.kind = "persp" /\ RLt(Zero, call.cam[1])
    /\ ret = "False" /\ camera_to_world = pre.camera_to_world
    /\ RLt(projection.far_clip, RAdd(FarthestDepth(camera_to_world), call.cam[1]))
    /\ pre.call.op = "scale" /\ RLt(Zero, pre.call.cam[1])
    /\ RLe(FarthestDepth(camera_to_world), projection.far_clip)

====
